---- MODULE Spec2Model ----
(***************************************************************************)
(* Model of the Driver/Evaluator of sostrades_core                         *)
(* (execution_engine/proxy_driver_evaluator.py, class ProxyDriverEvaluator)*)
(* One driver node, its scenario children, and the part of the Data        *)
(* Manager that holds the driver inputs and the children inputs.           *)
(***************************************************************************)
EXTENDS Integers, Sequences, FiniteSets, TLC

(***************************************************************************)
(* Names and values                                                        *)
(***************************************************************************)
NoneVal == "None"

MONO_INSTANCE == "mono_instance"
MULTI_INSTANCE == "multi_instance"
REGULAR_BUILD == "regular_build"
BUILDER_MODE_POSSIBLE_VALUES == {MULTI_INSTANCE, MONO_INSTANCE, REGULAR_BUILD}
\* a value of builder_mode that is no possible value
WRONG_MODE == "wrong_mode"

LINKED_MODE == "linked_mode"
COPY_MODE == "copy_mode"
REFERENCE_MODE_POSSIBLE_VALUES == {LINKED_MODE, COPY_MODE}
REFERENCE_SCENARIO_NAME == "ReferenceScenario"

BUILDER_MODE == "builder_mode"
SUB_PROCESS_INPUTS == "sub_process_inputs"
SCENARIO_DF == "scenario_df"
INSTANCE_REFERENCE == "instance_reference"
REFERENCE_MODE == "reference_mode"
EVAL_INPUTS == "eval_inputs"
EVAL_OUTPUTS == "eval_outputs"
GENERATED_SAMPLES == "generated_samples"
MAX_SAMPLE_AUTO_BUILD_SCENARIOS == 1024

STUDY_PLACEHOLDER_WITHOUT_DOT == "<study_ph>"
NO_IMPORT == "No_SP_UC_Import"
SP_UC_IMPORT == "SP_UC_Import"
EmptyUsecase == "Empty"

\* the sub-process of the driver: one builder, whose discipline has the
\* inputs a, b (free inputs), k (an input declared non editable) and x
SubProcessName == "Disc1"
NonTradeCandidates == {"a", "b", "k"}
TradeColumn == "x"
Vars == NonTradeCandidates \cup {TradeColumn}
BadVar == "zz"
\* the outputs of the discipline
OutVars == {"y", "z"}
\* a second builder, and the coupling that holds several builders
OtherBuilder == "Disc2"
SUBCOUPLING_NAME == "subprocess"
\* names are sequences of pieces, so that f'{a}{b}' is a concatenation
GATHER_DEFAULT_SUFFIX == "_dict"
NoName == <<>>
SAMPLES_DF == "samples_df"
\* sos_name of the driver
DriverName == "Eval"

\* values of the inputs: two ordinary numbers and a not-a-number
NaN == -1
Default == 1
Values == {1, 2}

\* bounds of the exploration
MaxIterations == 6
SiblingNames == {"sc1", "sc2"}
MaxRows == Cardinality(SiblingNames)
UsecaseNames == {"uc1"}
MaxEvalRows == 4
MaxSamples == 2
MaxGenerated == 2

ScenarioNames == SiblingNames \cup {REFERENCE_SCENARIO_NAME}
ChildNames == ScenarioNames \cup {SubProcessName}

VARIABLES
    \* driver inputs held by the Data Manager
    builder_mode, instance_reference, reference_mode, scenario_df,
    sub_process_inputs,
    \* ProxyDiscipline part of the driver
    disc_in, structuring_variables, configure_status,
    \* ProxyDriverEvaluator attributes
    old_builder_mode, builder_tool, scatter_list, eval_process_builder,
    scenarios, scatter_list_valid, scatter_list_integrity_msg,
    sub_proc_import_usecase_status, previous_sub_process_usecase_name,
    previous_sub_process_usecase_data,
    old_ref_dict, old_scenario_names, save_editable_attr,
    original_editable_dict_non_ref, there_are_new_scenarios,
    \* Data Manager entries of the children inputs
    dm_value, dm_editable,
    \* evaluation tables of the driver held by the Data Manager, and the
    \* tables among them whose value is None
    eval_inputs, eval_outputs, samples_df, none_valued,
    \* ProxyDriverEvaluator attributes of the evaluation and of the gather
    selected_inputs, selected_outputs, eval_out_names, dynamic_outputs,
    gather_names, gather_out_keys,
    \* constructor arguments, and the associated namespaces of the builders
    cls_builder, flatten_subprocess, associated_namespaces,
    sub_builder_namespaces, builder_namespaces,
    \* inputs instance_reference and reference_mode of the driver nested in
    \* each scenario, when the sub-process holds a driver
    nested_instance_reference, nested_reference_mode,
    \* input generated_samples of the driver and the sample recorded last
    generated_samples, old_samples_df,
    \* children
    configured_children,
    \* configuration loop of the execution engine
    phase, dirty, iteration, error,
    \* what the last call of prepare_build / configure did, and the Data
    \* Manager entry the user edited last (NoKey after another input change)
    last_build, last_configure, last_input

inputs == <<builder_mode, instance_reference, reference_mode, scenario_df,
            sub_process_inputs>>
proxy == <<disc_in, structuring_variables, configure_status>>
tool == <<builder_tool, scatter_list, scatter_list_valid,
          scatter_list_integrity_msg>>
build == <<old_builder_mode, eval_process_builder, scenarios,
           configured_children>>
usecase == <<sub_proc_import_usecase_status, previous_sub_process_usecase_name,
             previous_sub_process_usecase_data>>
reference == <<old_ref_dict, old_scenario_names, save_editable_attr,
               original_editable_dict_non_ref, there_are_new_scenarios>>
dm == <<dm_value, dm_editable>>
tables == <<eval_inputs, eval_outputs, samples_df, none_valued>>
evaluation == <<selected_inputs, selected_outputs, eval_out_names, dynamic_outputs,
                gather_names, gather_out_keys>>
construction == <<cls_builder, flatten_subprocess, associated_namespaces,
                  sub_builder_namespaces>>
engine == <<phase, dirty, iteration, error>>
calls == <<last_build, last_configure, last_input>>
nested == <<nested_instance_reference, nested_reference_mode>>
sampling == <<generated_samples, old_samples_df>>
vars == <<inputs, proxy, tool, build, usecase, reference, dm, tables, evaluation,
          construction, builder_namespaces, nested, sampling, engine, calls>>

(***************************************************************************)
(* Dictionaries are functions; these are the dict operations the code uses *)
(***************************************************************************)
EmptyDict == [k \in {} |-> 0]

\* d1.update(d2)
Update(d1, d2) ==
    [k \in (DOMAIN d1) \cup (DOMAIN d2) |-> IF k \in DOMAIN d2 THEN d2[k] ELSE d1[k]]

\* {k: d[k] for k in d if k in keys}
Restrict(d, keys) == [k \in (DOMAIN d) \cap keys |-> d[k]]

\* values is a dict whose keys are all in the domain of d
SetAll(d, values) == [k \in DOMAIN d |-> IF k \in DOMAIN values THEN values[k] ELSE d[k]]

(***************************************************************************)
(* Scenario table                                                          *)
(***************************************************************************)
Row(sel, name, x) == [selected_scenario |-> sel, scenario_name |-> name, x |-> x]
Rows == [selected_scenario : BOOLEAN, scenario_name : SiblingNames, x : Values]

\* scenario_df[scenario_df[SELECTED_SCENARIO] == True][SCENARIO_NAME].values.tolist()
SelectedNames(df) ==
    LET rows == SelectSeq(df, LAMBDA row : row.selected_scenario)
    IN  [i \in 1..Len(rows) |-> rows[i].scenario_name]

\* set(list)
ToSet(list) == {list[i] : i \in DOMAIN list}

\* list.count(e)
Count(list, e) == Cardinality({i \in DOMAIN list : list[i] = e})

\* list without its element i
RemoveAt(list, i) == [j \in 1..(Len(list) - 1) |-> IF j < i THEN list[j] ELSE list[j + 1]]

(***************************************************************************)
(* Keys of the Data Manager: (node under the driver, short name)           *)
(***************************************************************************)
Key(node, var) == <<node, var>>
KeysOf(node) == {Key(node, v) : v \in Vars}

\* no entry
NoKey == Key(NoneVal, NoneVal)

\* DataManager.check_data_in_dm
check_data_in_dm(key) == key \in DOMAIN dm_value

\* editable attribute a discipline input is declared with
DeclaredEditable(var) == var # "k"

(***************************************************************************)
(* State after construction (ProxyDriverEvaluator.__init__)                *)
(***************************************************************************)
\* get_ns_list_in_builder_list: the namespaces of the builders of the list
get_ns_list_in_builder_list(builders, builders_ns) ==
    UNION {builders_ns[builders[i]] : i \in DOMAIN builders}

NoBuild == [cleaned |-> FALSE, tool_build |-> FALSE, built |-> {}, removed |-> {}]
NoConfigure == [setup_ran |-> FALSE, prepared |-> FALSE, propagation_ran |-> FALSE, written |-> {},
                trade_written |-> {}, restored |-> {},
                import_written |-> {}, import_attempted |-> FALSE,
                selected_inputs_has_changed |-> FALSE, warned |-> {}]

\* __init__ with the arguments cls_builder, flatten_subprocess and
\* associated_namespaces, the builders having the namespaces builders_ns
Constructed(builders, flatten, namespaces, builders_ns) ==
    /\ cls_builder = builders
    /\ flatten_subprocess = flatten
    /\ associated_namespaces = namespaces
    /\ builder_namespaces = builders_ns
    /\ sub_builder_namespaces = get_ns_list_in_builder_list(builders, builders_ns)
    /\ eval_inputs = <<>>
    /\ eval_outputs = <<>>
    /\ samples_df = EmptyDict
    /\ none_valued = {EVAL_INPUTS, EVAL_OUTPUTS, SAMPLES_DF}
    /\ selected_inputs = <<>>
    /\ selected_outputs = <<>>
    /\ eval_out_names = <<>>
    /\ dynamic_outputs = {}
    /\ gather_names = EmptyDict
    /\ gather_out_keys = <<>>
    /\ builder_mode = NoneVal
    /\ instance_reference = FALSE
    /\ reference_mode = NoneVal
    /\ scenario_df = <<>>
    /\ generated_samples = <<>>
    /\ old_samples_df = EmptyDict
    /\ sub_process_inputs = [usecase_name |-> EmptyUsecase, usecase_data |-> EmptyDict]
    /\ disc_in = {}
    /\ structuring_variables = [keys |-> {}, builder_mode |-> NoneVal,
                                scenario_df |-> <<>>, generated_samples |-> <<>>,
                                instance_reference |-> FALSE,
                                reference_mode |-> NoneVal,
                                eval_inputs |-> <<>>, eval_outputs |-> <<>>,
                                none_valued |-> {EVAL_INPUTS, EVAL_OUTPUTS}]
    /\ configure_status = FALSE
    /\ old_builder_mode = NoneVal
    /\ builder_tool = NoneVal
    /\ scatter_list = <<>>
    /\ eval_process_builder = NoneVal
    /\ scenarios = {}
    /\ scatter_list_valid = TRUE
    /\ scatter_list_integrity_msg = {}
    /\ sub_proc_import_usecase_status = NO_IMPORT
    /\ previous_sub_process_usecase_name = EmptyUsecase
    /\ previous_sub_process_usecase_data = EmptyDict
    /\ old_ref_dict = EmptyDict
    /\ old_scenario_names = <<>>
    /\ save_editable_attr = TRUE
    /\ original_editable_dict_non_ref = EmptyDict
    /\ there_are_new_scenarios = FALSE
    /\ dm_value = EmptyDict
    /\ dm_editable = EmptyDict
    /\ configured_children = {}
    /\ phase = "idle"
    /\ dirty = TRUE
    /\ iteration = 0
    /\ error = NoneVal
    /\ last_build = NoBuild
    /\ last_configure = NoConfigure
    /\ last_input = NoKey

\* the sub-process holds no driver
NoNestedDriver ==
    /\ nested_instance_reference = EmptyDict
    /\ nested_reference_mode = EmptyDict

\* the sub-process holds a driver: each scenario built from it holds a
\* nested ProxyDriverEvaluator with its inputs instance_reference and
\* reference_mode
NestedDriver ==
    /\ nested_instance_reference = [sc \in ScenarioNames |-> FALSE]
    /\ nested_reference_mode = [sc \in ScenarioNames |-> NoneVal]

\* the driver of one builder without namespaces
Init ==
    /\ Constructed(<<SubProcessName>>, FALSE, {}, [b \in {SubProcessName} |-> {}])
    /\ NoNestedDriver

(***************************************************************************)
(* Queries of the driver                                                   *)
(***************************************************************************)
\* [disc.sos_name for disc in self.scenarios]
ProxiesNames == {c.name : c \in scenarios}

\* ProxyDriverEvaluator.get_disciplines_to_configure
get_disciplines_to_configure == ProxiesNames \ configured_children

\* ProxyDriverEvaluator.subprocess_is_configured
subprocess_is_configured == get_disciplines_to_configure = {}

\* ProxyDriverEvaluator.subprocesses_built
subprocesses_built(scenario_names) ==
    ProxiesNames # {} /\ ProxiesNames = ToSet(scenario_names)

\* ProxyDriverEvaluator.prepare_variables_to_propagate: the names of the
\* selected scenarios, ReferenceScenario appended when instance_reference
PropagatedScenarioNames ==
    IF instance_reference
    THEN SelectedNames(scenario_df) \o <<REFERENCE_SCENARIO_NAME>>
    ELSE SelectedNames(scenario_df)

\* ProxyDriverEvaluator.prepare_variables_to_propagate: trade_vars
TradeVars ==
    IF subprocesses_built(PropagatedScenarioNames) THEN {TradeColumn} ELSE {}

\* the comparison ref_dict[key] != self.old_ref_dict[key] on numbers
Differs(u, v) == u = NaN \/ v = NaN \/ u # v

\* ProxyDriverEvaluator.get_reference_non_trade_variables_changes: ref_dict
RefDict(dmv, trade_vars) ==
    [key \in {k \in DOMAIN dmv : k[1] = REFERENCE_SCENARIO_NAME /\ k[2] \notin trade_vars}
        |-> dmv[key]]

\* ProxyDriverEvaluator.get_reference_non_trade_variables_changes: ref_changes_dict
RefChangesDict(ref_dict, old) ==
    [key \in {k \in DOMAIN ref_dict :
                 IF k \in DOMAIN old THEN Differs(ref_dict[k], old[k]) ELSE TRUE}
        |-> ref_dict[key]]

\* ProxyDriverEvaluator.transform_dict_from_reference_to_other_scenarios
transform_dict_from_reference_to_other_scenarios(dmv, scenario_names, dict_from_ref) ==
    [key \in {Key(sc, k[2]) : sc \in ToSet(scenario_names), k \in DOMAIN dict_from_ref}
                \cap DOMAIN dmv
        |-> dict_from_ref[Key(REFERENCE_SCENARIO_NAME, key[2])]]

\* ProxyDriverEvaluator.check_if_there_are_reference_variables_changes
check_if_there_are_reference_variables_changes ==
    IF subprocesses_built(PropagatedScenarioNames) /\ instance_reference
    THEN RefChangesDict(RefDict(dm_value, TradeVars), old_ref_dict)
    ELSE EmptyDict

\* ProxyDiscipline.check_structuring_variables_changes: a structuring input
\* of the driver differs from the value recorded at the last configure
check_structuring_variables_changes ==
    \/ BUILDER_MODE \in disc_in
        /\ builder_mode # structuring_variables.builder_mode
    \/ SCENARIO_DF \in disc_in
        /\ \/ SCENARIO_DF \notin structuring_variables.keys
           \/ scenario_df # structuring_variables.scenario_df
    \/ GENERATED_SAMPLES \in disc_in
        /\ \/ GENERATED_SAMPLES \notin structuring_variables.keys
           \/ generated_samples # structuring_variables.generated_samples
    \/ INSTANCE_REFERENCE \in disc_in
        /\ \/ INSTANCE_REFERENCE \notin structuring_variables.keys
           \/ instance_reference # structuring_variables.instance_reference
    \/ REFERENCE_MODE \in disc_in
        /\ reference_mode # structuring_variables.reference_mode
    \/ EVAL_INPUTS \in disc_in
        /\ \/ eval_inputs # structuring_variables.eval_inputs
           \/ (EVAL_INPUTS \in none_valued) # (EVAL_INPUTS \in structuring_variables.none_valued)
    \/ EVAL_OUTPUTS \in disc_in
        /\ \/ eval_outputs # structuring_variables.eval_outputs
           \/ (EVAL_OUTPUTS \in none_valued) # (EVAL_OUTPUTS \in structuring_variables.none_valued)

\* ProxyDiscipline.is_configured
super_is_configured == configure_status /\ ~check_structuring_variables_changes

\* ProxyDriverEvaluator.is_configured
is_configured ==
    IF /\ BUILDER_MODE \in disc_in
       /\ builder_mode = MULTI_INSTANCE
       /\ INSTANCE_REFERENCE \in disc_in
       /\ instance_reference
       /\ SCENARIO_DF \in disc_in
    THEN /\ super_is_configured
         /\ subprocess_is_configured
         /\ DOMAIN check_if_there_are_reference_variables_changes = {}
         /\ sub_proc_import_usecase_status = NO_IMPORT
    ELSE super_is_configured /\ subprocess_is_configured

(***************************************************************************)
(* User inputs.  The user changes one input between two runs of the        *)
(* configuration loop, once the loop has converged.  An input can be set   *)
(* once the driver has declared it.                                        *)
(***************************************************************************)
UserMayAct == error = NoneVal /\ phase = "idle" /\ ~dirty /\ is_configured

Touched(key) ==
    /\ last_input' = key
    /\ dirty' = TRUE
    /\ iteration' = 0
    /\ UNCHANGED <<phase, error>>
    /\ last_build' = NoBuild
    /\ last_configure' = NoConfigure

SetBuilderMode(m) ==
    /\ UserMayAct
    /\ BUILDER_MODE \in disc_in
    /\ m # builder_mode
    /\ builder_mode' = m
    /\ Touched(NoKey)
    /\ UNCHANGED <<instance_reference, reference_mode, scenario_df, sub_process_inputs,
                   proxy, tool, build, usecase, reference, dm,
                   tables, evaluation, construction, builder_namespaces, nested, sampling>>

SetInstanceReference(b) ==
    /\ UserMayAct
    /\ INSTANCE_REFERENCE \in disc_in
    /\ b # instance_reference
    /\ instance_reference' = b
    /\ Touched(NoKey)
    /\ UNCHANGED <<builder_mode, reference_mode, scenario_df, sub_process_inputs,
                   proxy, tool, build, usecase, reference, dm,
                   tables, evaluation, construction, builder_namespaces, nested, sampling>>

SetReferenceMode(m) ==
    /\ UserMayAct
    /\ REFERENCE_MODE \in disc_in
    /\ m # reference_mode
    /\ reference_mode' = m
    /\ Touched(NoKey)
    /\ UNCHANGED <<builder_mode, instance_reference, scenario_df, sub_process_inputs,
                   proxy, tool, build, usecase, reference, dm,
                   tables, evaluation, construction, builder_namespaces, nested, sampling>>

AddScenarioRow(row) ==
    /\ UserMayAct
    /\ SCENARIO_DF \in disc_in
    /\ Len(scenario_df) < MaxRows
    /\ scenario_df' = Append(scenario_df, row)
    /\ Touched(NoKey)
    /\ UNCHANGED <<builder_mode, instance_reference, reference_mode, sub_process_inputs,
                   proxy, tool, build, usecase, reference, dm,
                   tables, evaluation, construction, builder_namespaces, nested, sampling>>

RemoveScenarioRow(i) ==
    /\ UserMayAct
    /\ SCENARIO_DF \in disc_in
    /\ i \in DOMAIN scenario_df
    /\ scenario_df' = RemoveAt(scenario_df, i)
    /\ Touched(NoKey)
    /\ UNCHANGED <<builder_mode, instance_reference, reference_mode, sub_process_inputs,
                   proxy, tool, build, usecase, reference, dm,
                   tables, evaluation, construction, builder_namespaces, nested, sampling>>

SelectScenarioRow(i) ==
    /\ UserMayAct
    /\ SCENARIO_DF \in disc_in
    /\ i \in DOMAIN scenario_df
    /\ scenario_df' = [scenario_df EXCEPT ![i].selected_scenario = ~@]
    /\ Touched(NoKey)
    /\ UNCHANGED <<builder_mode, instance_reference, reference_mode, sub_process_inputs,
                   proxy, tool, build, usecase, reference, dm,
                   tables, evaluation, construction, builder_namespaces, nested, sampling>>

\* the user, or the sample generator coupled to the driver, sets the input
\* generated_samples
SetGeneratedSamples(samples) ==
    /\ UserMayAct
    /\ GENERATED_SAMPLES \in disc_in
    /\ samples # generated_samples
    /\ generated_samples' = samples
    /\ Touched(NoKey)
    /\ UNCHANGED <<inputs, proxy, tool, build, usecase, reference, dm,
                   tables, evaluation, construction, builder_namespaces, nested,
                   old_samples_df>>

\* the inputs of the driver nested in a sibling are read-only while the
\* driver links the siblings to the reference
NestedEditable(sc) ==
    \/ sc = REFERENCE_SCENARIO_NAME
    \/ ~(instance_reference /\ reference_mode = LINKED_MODE)

\* the user sets instance_reference of the driver nested in a scenario
SetNestedInstanceReference(sc, b) ==
    /\ UserMayAct
    /\ sc \in ProxiesNames \cap DOMAIN nested_instance_reference
    /\ NestedEditable(sc)
    /\ b # nested_instance_reference[sc]
    /\ nested_instance_reference' = [nested_instance_reference EXCEPT ![sc] = b]
    /\ Touched(NoKey)
    /\ UNCHANGED <<inputs, proxy, tool, build, usecase, reference, dm,
                   tables, evaluation, construction, builder_namespaces,
                   nested_reference_mode, sampling>>

\* the user sets reference_mode of the driver nested in a scenario
SetNestedReferenceMode(sc, m) ==
    /\ UserMayAct
    /\ sc \in ProxiesNames \cap DOMAIN nested_reference_mode
    /\ NestedEditable(sc)
    /\ nested_instance_reference[sc]
    /\ m # nested_reference_mode[sc]
    /\ nested_reference_mode' = [nested_reference_mode EXCEPT ![sc] = m]
    /\ Touched(NoKey)
    /\ UNCHANGED <<inputs, proxy, tool, build, usecase, reference, dm,
                   tables, evaluation, construction, builder_namespaces,
                   nested_instance_reference, sampling>>

\* use cases the user can select: anonymised keys with the study placeholder
AnonymisedKeys == {Key(STUDY_PLACEHOLDER_WITHOUT_DOT, "a"),
                   Key(STUDY_PLACEHOLDER_WITHOUT_DOT, BadVar)}
UsecaseData ==
    UNION {[ks -> {2}] : ks \in (SUBSET AnonymisedKeys) \ {{}}}

SetUsecase(name, data) ==
    /\ UserMayAct
    /\ SUB_PROCESS_INPUTS \in disc_in
    /\ sub_process_inputs' = [usecase_name |-> name, usecase_data |-> data]
    /\ sub_process_inputs' # sub_process_inputs
    /\ Touched(NoKey)
    /\ UNCHANGED <<builder_mode, instance_reference, reference_mode, scenario_df,
                   proxy, tool, build, usecase, reference, dm,
                   tables, evaluation, construction, builder_namespaces, nested, sampling>>

\* the user edits an editable input of a scenario
EditValue(key, val) ==
    /\ UserMayAct
    /\ key \in DOMAIN dm_value
    /\ dm_editable[key]
    /\ val # dm_value[key]
    /\ dm_value' = [dm_value EXCEPT ![key] = val]
    /\ Touched(key)
    /\ UNCHANGED <<inputs, proxy, tool, build, usecase, reference, dm_editable,
                   tables, evaluation, construction, builder_namespaces, nested, sampling>>

\* len(dataframe)
RowCount(df) == IF DOMAIN df = {} THEN 0 ELSE Len(df[CHOOSE c \in DOMAIN df : TRUE])

\* the user selects or unselects a row of eval_inputs
SelectEvalInput(i) ==
    /\ UserMayAct
    /\ EVAL_INPUTS \in disc_in \ none_valued
    /\ i \in DOMAIN eval_inputs
    /\ eval_inputs' = [eval_inputs EXCEPT ![i].selected_input = ~@]
    /\ Touched(NoKey)
    /\ UNCHANGED <<inputs, proxy, tool, build, usecase, reference, dm, eval_outputs,
                   samples_df, none_valued, evaluation, construction,
                   builder_namespaces, nested, sampling>>

\* the user adds a row to eval_inputs
AddEvalInputRow(row) ==
    /\ UserMayAct
    /\ EVAL_INPUTS \in disc_in \ none_valued
    /\ Len(eval_inputs) < MaxEvalRows
    /\ eval_inputs' = Append(eval_inputs, row)
    /\ Touched(NoKey)
    /\ UNCHANGED <<inputs, proxy, tool, build, usecase, reference, dm, eval_outputs,
                   samples_df, none_valued, evaluation, construction,
                   builder_namespaces, nested, sampling>>

\* the user selects or unselects a row of eval_outputs
SelectEvalOutput(i) ==
    /\ UserMayAct
    /\ EVAL_OUTPUTS \in disc_in \ none_valued
    /\ i \in DOMAIN eval_outputs
    /\ eval_outputs' = [eval_outputs EXCEPT ![i].selected_output = ~@]
    /\ Touched(NoKey)
    /\ UNCHANGED <<inputs, proxy, tool, build, usecase, reference, dm, eval_inputs,
                   samples_df, none_valued, evaluation, construction,
                   builder_namespaces, nested, sampling>>

\* the user gives a row of eval_outputs a name for its gather output
SetOutputName(i, name) ==
    /\ UserMayAct
    /\ EVAL_OUTPUTS \in disc_in \ none_valued
    /\ i \in DOMAIN eval_outputs
    /\ name # eval_outputs[i].output_name
    /\ eval_outputs' = [eval_outputs EXCEPT ![i].output_name = name]
    /\ Touched(NoKey)
    /\ UNCHANGED <<inputs, proxy, tool, build, usecase, reference, dm, eval_inputs,
                   samples_df, none_valued, evaluation, construction,
                   builder_namespaces, nested, sampling>>

\* the user adds a row to eval_outputs
AddEvalOutputRow(row) ==
    /\ UserMayAct
    /\ EVAL_OUTPUTS \in disc_in \ none_valued
    /\ Len(eval_outputs) < MaxEvalRows
    /\ eval_outputs' = Append(eval_outputs, row)
    /\ Touched(NoKey)
    /\ UNCHANGED <<inputs, proxy, tool, build, usecase, reference, dm, eval_inputs,
                   samples_df, none_valued, evaluation, construction,
                   builder_namespaces, nested, sampling>>

\* the user adds a sample: a row of samples_df with the value val in every column
AddSample(val) ==
    /\ UserMayAct
    /\ SAMPLES_DF \in disc_in \ none_valued
    /\ RowCount(samples_df) < MaxSamples
    /\ samples_df' = [c \in DOMAIN samples_df |-> Append(samples_df[c], val)]
    /\ Touched(NoKey)
    /\ UNCHANGED <<inputs, proxy, tool, build, usecase, reference, dm, eval_inputs,
                   eval_outputs, none_valued, evaluation, construction,
                   builder_namespaces, nested, sampling>>

(***************************************************************************)
(* Build step of a configuration pass: ExecutionEngine.factory.build()     *)
(* calls ProxyDriverEvaluator.prepare_build and builds the returned list   *)
(***************************************************************************)
\* the engine runs a pass after an input change, after a pass that changed
\* something (no fixed point yet) and while the driver is not configured
PassNeeded == dirty \/ ~is_configured

\* the state a pass works on: a pass that leaves it unchanged is a fixed point
program == <<inputs, proxy, tool, build, usecase, reference, dm,
                   tables, evaluation, construction, builder_namespaces, nested, sampling>>

\* entries of the nodes removed from the Data Manager
RemoveNodes(d, nodes) == Restrict(d, {k \in DOMAIN d : k[1] \notin nodes})

\* ProxyDisciplineBuilder.clean_children: no child is kept
clean_children(children) == {}

\* the children after ScatterTool.build: exactly the scenarios of the list
ScatterToolBuild(children, names) ==
    {c \in children : c.name \in names}
        \cup {[name |-> n, mode |-> MULTI_INSTANCE] : n \in names \ {c.name : c \in children}}

\* the children after the factory built the builder list of the driver
BuildList(children, names, mode) ==
    children \cup {[name |-> n, mode |-> mode] : n \in names \ {c.name : c \in children}}

\* ProxyDriverEvaluator.clean_sub_builders: the namespaces of the builders
\* after the call
clean_sub_builders == [b \in DOMAIN builder_namespaces |-> associated_namespaces]

\* a namespace is (name, value), the value being a path of node names; the
\* value updated with the name of the driver
update_ns_value_with_extra_ns(ns) == <<ns[1], Append(ns[2], DriverName)>>

\* ProxyDriverEvaluator.update_sub_builders_namespaces
update_sub_builders_namespaces ==
    {update_ns_value_with_extra_ns(ns) : ns \in sub_builder_namespaces}

\* ProxyDriverEvaluator._set_eval_process_builder, the builders having the
\* namespaces builders_ns: the builder it sets, the namespaces of the
\* builders after the call and the exception that ended it, if any
set_eval_process_builder(builders_ns) ==
    LET disc_builder ==
            IF Len(cls_builder) = 0 THEN NoneVal
            ELSE IF Len(cls_builder) = 1 THEN cls_builder[1]
            ELSE IF flatten_subprocess THEN NoneVal
            ELSE SUBCOUPLING_NAME
    IN  [builder |-> disc_builder,
         builders_ns |->
             IF disc_builder \in DOMAIN builders_ns
             THEN [builders_ns EXCEPT ![disc_builder] = @ \cup update_sub_builders_namespaces]
             ELSE builders_ns,
         raised |-> IF disc_builder = NoneVal THEN "AttributeError" ELSE NoneVal]

\* the result of a call of _set_eval_process_builder that is not made
NoBuilderSet(builder, builders_ns) ==
    [builder |-> builder, builders_ns |-> builders_ns, raised |-> NoneVal]

\* ProxyDriverEvaluator.prepare_mono_instance_build: the list it returns
\* holds eval_process_builder, unless it is None
prepare_mono_instance_build(builder) ==
    IF builder # NoneVal THEN <<builder>> ELSE <<>>

\* a comparison that takes the first choice of a mode for no change
builder_mode_has_changed_after_first ==
    /\ BUILDER_MODE \in disc_in
    /\ old_builder_mode \in BUILDER_MODE_POSSIBLE_VALUES
    /\ builder_mode # old_builder_mode

\* ProxyDriverEvaluator.prepare_build: builder_mode_has_changed
builder_mode_has_changed ==
    BUILDER_MODE \in disc_in /\ builder_mode # old_builder_mode

\* prepare_build, setup_sos_disciplines: the last else of the chain on
\* builder_mode, that raises ValueError('Wrong builder mode input ...')
wrong_builder_mode == builder_mode \notin BUILDER_MODE_POSSIBLE_VALUES \cup {NoneVal}

\* ProxyDriverEvaluator.prepare_build
prepare_build ==
    LET in_data == BUILDER_MODE \in disc_in
        kept == IF builder_mode_has_changed THEN clean_children(scenarios) ELSE scenarios
        tool1 == IF builder_mode_has_changed /\ old_builder_mode = MULTI_INSTANCE
                 THEN NoneVal ELSE builder_tool
        epb1 == IF builder_mode_has_changed /\ old_builder_mode = MONO_INSTANCE
                THEN NoneVal ELSE eval_process_builder
        ns1 == IF builder_mode_has_changed THEN clean_sub_builders ELSE builder_namespaces
    IN
    \E set \in {IF in_data /\ builder_mode = MONO_INSTANCE /\ epb1 = NoneVal
                THEN set_eval_process_builder(ns1) ELSE NoBuilderSet(epb1, ns1)} :
    \E children \in
           {IF ~in_data \/ set.raised # NoneVal THEN kept
            ELSE IF builder_mode = MULTI_INSTANCE
                 THEN IF tool1 # NoneVal /\ scatter_list_valid
                      THEN ScatterToolBuild(kept, ToSet(scatter_list))
                      ELSE kept
            ELSE IF builder_mode = MONO_INSTANCE
                 THEN BuildList(kept, ToSet(prepare_mono_instance_build(set.builder)),
                                MONO_INSTANCE)
            ELSE IF builder_mode = REGULAR_BUILD
                 THEN BuildList(kept, ToSet(cls_builder), REGULAR_BUILD)
            ELSE kept} :
    LET surviving == {c.name : c \in scenarios \cap children}
        gone == ProxiesNames \ surviving
    IN  /\ old_builder_mode' = IF builder_mode_has_changed THEN builder_mode
                               ELSE old_builder_mode
        /\ builder_tool' = tool1
        /\ scatter_list' = IF tool1 = NoneVal THEN <<>> ELSE scatter_list
        /\ eval_process_builder' = set.builder
        /\ builder_namespaces' = set.builders_ns
        /\ scenarios' = children
        /\ configured_children' = configured_children \cap surviving
        /\ dm_value' = RemoveNodes(dm_value, gone)
        /\ dm_editable' = RemoveNodes(dm_editable, gone)
        /\ error' = IF set.raised # NoneVal THEN set.raised
                     ELSE IF in_data /\ wrong_builder_mode THEN "ValueError"
                     ELSE NoneVal
        /\ last_build' = [cleaned |-> builder_mode_has_changed,
                          tool_build |-> in_data /\ builder_mode = MULTI_INSTANCE
                                            /\ tool1 # NoneVal /\ scatter_list_valid,
                          built |-> {c.name : c \in children \ (scenarios \cap kept)},
                          removed |-> gone]

PrepareBuild ==
    /\ error = NoneVal
    /\ phase = "idle"
    /\ PassNeeded
    /\ iteration < MaxIterations
    /\ prepare_build
    /\ phase' = "built"
    /\ UNCHANGED <<inputs, proxy, scatter_list_valid, scatter_list_integrity_msg,
                   usecase, reference, tables, evaluation, construction, nested, sampling,
                   iteration, last_configure, last_input>>
    /\ dirty' = (program' # program)

(***************************************************************************)
(* Pieces of ProxyDriverEvaluator.configure                                *)
(***************************************************************************)
\* a child discipline configures: its inputs enter the Data Manager with
\* their default value and declared editable attribute
ChildrenValues(dmv, children) ==
    Update([key \in UNION {KeysOf(n) : n \in children} |-> Default], dmv)
ChildrenEditable(dme, children) ==
    Update([key \in UNION {KeysOf(n) : n \in children} |-> DeclaredEditable(key[2])], dme)

\* inputs of DriverEvaluatorWrapper.DESC_IN
StaticInputs == {BUILDER_MODE, SUB_PROCESS_INPUTS}

\* ProxyDriverEvaluator.build_multi_instance_inst_desc_io: dynamic inputs
build_multi_instance_inst_desc_io(di, ir) ==
    {SCENARIO_DF, EVAL_OUTPUTS, INSTANCE_REFERENCE, GENERATED_SAMPLES}
        \cup (IF INSTANCE_REFERENCE \in di /\ ir THEN {REFERENCE_MODE} ELSE {})

\* ProxyDiscipline.set_structuring_variables_values
set_structuring_variables_values(tables_read) ==
    [keys |-> disc_in, builder_mode |-> builder_mode, scenario_df |-> scenario_df,
     generated_samples |-> generated_samples,
     instance_reference |-> instance_reference, reference_mode |-> reference_mode,
     eval_inputs |-> tables_read.eval_inputs, eval_outputs |-> tables_read.eval_outputs,
     none_valued |-> tables_read.none_valued \ {SAMPLES_DF}]

\* ProxyDriverEvaluator.check_scatter_list_validity: the repeated names
RepeatedElements(df) ==
    {sc \in ToSet(SelectedNames(df)) : Count(SelectedNames(df), sc) > 1}

\* a validity check that counts the rows that are not selected as well
check_all_rows_validity(df) ==
    Len(df) = Cardinality({df[i].scenario_name : i \in DOMAIN df})

\* ProxyDriverEvaluator.check_scatter_list_validity: the flag it returns
check_scatter_list_validity(df) ==
    Len(SelectedNames(df)) = Cardinality(ToSet(SelectedNames(df)))

\* ScatterTool.prepare_tool: the scenarios to build
prepare_tool(df, ir) ==
    IF ir THEN SelectedNames(df) \o <<REFERENCE_SCENARIO_NAME>> ELSE SelectedNames(df)

\* ProxyDriverEvaluator.put_anonymized_input_dict_in_sub_process_context:
\* key.replace(STUDY_PLACEHOLDER_WITHOUT_DOT, ref_discipline_full_name)
Unanonymise(key, ref_node) ==
    IF key[1] = STUDY_PLACEHOLDER_WITHOUT_DOT THEN Key(ref_node, key[2]) ELSE key
put_anonymized_input_dict_in_sub_process_context(data, ref_node) ==
    [key \in {Unanonymise(k, ref_node) : k \in DOMAIN data}
        |-> data[CHOOSE k \in DOMAIN data : Unanonymise(k, ref_node) = key]]

\* ProxyDriverEvaluator.set_sub_process_usecase_status_from_user_inputs
set_sub_process_usecase_status_from_user_inputs(di) ==
    IF SUB_PROCESS_INPUTS \in di
    THEN IF \/ previous_sub_process_usecase_name # sub_process_inputs.usecase_name
            \/ previous_sub_process_usecase_data # sub_process_inputs.usecase_data
         THEN IF /\ sub_process_inputs.usecase_name # EmptyUsecase
                 /\ DOMAIN sub_process_inputs.usecase_data # {}
              THEN SP_UC_IMPORT
              ELSE sub_proc_import_usecase_status
         ELSE NO_IMPORT
    ELSE NO_IMPORT

\* ProxyDriverEvaluator.update_reference_from_anonymised_dict: the entries
\* written to the Data Manager
FilteredImportDict(dmv, ref_node) ==
    Restrict(put_anonymized_input_dict_in_sub_process_context(
                 sub_process_inputs.usecase_data, ref_node), DOMAIN dmv)
\* a test that takes one key set for all keys set
AreSomeDataSet(dmv, ref_node) ==
    DOMAIN FilteredImportDict(dmv, ref_node) # {}

\* ProxyDriverEvaluator.update_reference_from_anonymised_dict: are_all_data_set
AreAllDataSet(dmv, ref_node) ==
    Cardinality(DOMAIN FilteredImportDict(dmv, ref_node))
        = Cardinality(DOMAIN put_anonymized_input_dict_in_sub_process_context(
                          sub_process_inputs.usecase_data, ref_node))

\* an import that leaves the use case data in sub_process_inputs
keep_usecase_data(sub_process_inputs_dict) == sub_process_inputs_dict

\* update_reference_from_anonymised_dict:
\* sub_process_inputs_dict[USECASE_DATA] = {}
empty_usecase_data(sub_process_inputs_dict) ==
    [sub_process_inputs_dict EXCEPT !.usecase_data = EmptyDict]

\* ProxyDriverEvaluator.manage_import_inputs_from_sub_process: the Data
\* Manager values, the import status and the use case records after the call
manage_import_inputs_from_sub_process(dmv, di, ref_node) ==
    LET status == set_sub_process_usecase_status_from_user_inputs(di)
        import == status = SP_UC_IMPORT
        done == import /\ AreAllDataSet(dmv, ref_node)
    IN  [dm_value |-> IF import THEN SetAll(dmv, FilteredImportDict(dmv, ref_node)) ELSE dmv,
         attempted |-> import,
         written |-> IF import THEN DOMAIN FilteredImportDict(dmv, ref_node) ELSE {},
         status |-> IF done THEN NO_IMPORT ELSE status,
         sub_process_inputs |->
             IF done THEN empty_usecase_data(sub_process_inputs) ELSE sub_process_inputs,
         previous_name |-> IF done THEN sub_process_inputs.usecase_name
                           ELSE previous_sub_process_usecase_name,
         previous_data |-> IF done THEN EmptyDict ELSE previous_sub_process_usecase_data]

\* the result of a call of manage_import that is not made
NoImport(dmv) ==
    [dm_value |-> dmv, attempted |-> FALSE, written |-> {},
     status |-> sub_proc_import_usecase_status,
     sub_process_inputs |-> sub_process_inputs,
     previous_name |-> previous_sub_process_usecase_name,
     previous_data |-> previous_sub_process_usecase_data]

(***************************************************************************)
(* Reference propagation                                                   *)
(***************************************************************************)
\* order of the inputs of a scenario discipline (order of the dict keys)
InputOrder == <<"a", "b", "k", "x">>

\* the pairs (s, t) of distinct scenario names with s in t: s occurs in t
ProperSubstrings == {<<"sc1", "sc10">>}

\* s in t, on scenario names
SubstringOf(s, t) == s = t \/ <<s, t>> \in ProperSubstrings

\* "new_scenario in key", "sc in key": the scenario name occurs in the full
\* name <driver>.<scenario>.<variable>, of which the path of the driver and
\* the name of the variable hold no scenario name
NameInKey(sc, key) == SubstringOf(sc, key[1])

\* the keys of scenarios_non_trade_vars_dict in the order of the dict:
\* for key in ref_dict, for sc in scenario_names
KeyAt(names, p) ==
    Key(names[((p - 1) % Len(names)) + 1], InputOrder[((p - 1) \div Len(names)) + 1])
Positions(names, d) ==
    {p \in 1..(Len(InputOrder) * Len(names)) : KeyAt(names, p) \in DOMAIN d}

\* ProxyDriverEvaluator.save_original_editable_attr_from_non_trade_variables
save_original_editable_attr_from_non_trade_variables(dme, d) ==
    [key \in DOMAIN d |-> dme[key]]

\* ProxyDriverEvaluator.modify_editable_attribute_according_to_reference_mode:
\* the keys handled before a key is missing in original_editable_dict_non_ref
\* (all of them when no key is missing)
MissingPositions(names, d, original) ==
    {p \in Positions(names, d) : KeyAt(names, p) \notin DOMAIN original}
HandledKeys(names, d, original) ==
    LET missing == MissingPositions(names, d, original)
    IN  IF missing = {} THEN DOMAIN d
        ELSE {KeyAt(names, p) : p \in {q \in Positions(names, d) : \A m \in missing : q < m}}
modify_editable_attribute_according_to_reference_mode(dme, rm, names, d, original) ==
    IF rm = LINKED_MODE
    THEN Update(dme, [key \in DOMAIN d |-> FALSE])
    ELSE IF rm = COPY_MODE
    THEN Update(dme, [key \in {k \in HandledKeys(names, d, original) : original[k] # FALSE}
                         |-> TRUE])
    ELSE dme
ModifyEditableRaises(rm, names, d, original) ==
    rm = COPY_MODE /\ MissingPositions(names, d, original) # {}

\* the full name of the driver nested in a scenario, as a path of node names
NestedDriverName == "SubDriver"
subdriver_full_name(sc) == <<DriverName, sc, NestedDriverName>>

\* 'ReferenceScenario' in subdriver_full_name
ReferenceScenarioIn(full_name) == REFERENCE_SCENARIO_NAME \in ToSet(full_name)

\* a search that forces the nested drivers of every scenario
search_evaluator_names_and_modify_mode_everywhere(rm) ==
    [sc \in DOMAIN nested_reference_mode |->
        IF /\ sc \in ProxiesNames
           /\ nested_instance_reference[sc]
           /\ rm = LINKED_MODE
        THEN LINKED_MODE ELSE nested_reference_mode[sc]]

\* ProxyDriverEvaluator.search_evaluator_names_and_modify_mode_iteratively,
\* called for each scenario of the driver: reference_mode of the nested
\* drivers after the calls
search_evaluator_names_and_modify_mode_iteratively(rm) ==
    [sc \in DOMAIN nested_reference_mode |->
        IF /\ sc \in ProxiesNames
           /\ nested_instance_reference[sc]
           /\ rm = LINKED_MODE
           /\ ReferenceScenarioIn(subdriver_full_name(sc))
        THEN LINKED_MODE ELSE nested_reference_mode[sc]]

\* a propagation that writes the snapshot of the reference taken by the
\* call before instead of the current values
propagate_previous_reference_values(dmv, rm, names, ref_changes_dict, ref_dict, new_scenarios) ==
    IF rm = LINKED_MODE /\ (new_scenarios \/ DOMAIN ref_changes_dict # {})
    THEN transform_dict_from_reference_to_other_scenarios(dmv, names,
             Update(ref_dict, Restrict(old_ref_dict, DOMAIN ref_dict)))
    ELSE EmptyDict

\* a propagation that writes every reference value in copy mode as well
propagate_all_reference_values(dmv, rm, names, ref_changes_dict, ref_dict, new_scenarios) ==
    IF rm \in REFERENCE_MODE_POSSIBLE_VALUES /\ (new_scenarios \/ DOMAIN ref_changes_dict # {})
    THEN transform_dict_from_reference_to_other_scenarios(dmv, names, ref_dict)
    ELSE EmptyDict

\* ProxyDriverEvaluator.propagate_reference_non_trade_variables: the dict
\* given to set_values_from_dict (empty when no write is made)
propagate_reference_non_trade_variables(dmv, rm, names, ref_changes_dict, ref_dict, new_scenarios) ==
    LET dict_to_propagate ==
            IF rm = LINKED_MODE
            THEN transform_dict_from_reference_to_other_scenarios(dmv, names, ref_dict)
            ELSE IF rm = COPY_MODE /\ DOMAIN ref_changes_dict # {}
            THEN transform_dict_from_reference_to_other_scenarios(dmv, names, ref_changes_dict)
            ELSE EmptyDict
    IN  IF new_scenarios
        THEN dict_to_propagate
        ELSE IF DOMAIN ref_changes_dict # {} THEN dict_to_propagate ELSE EmptyDict

\* the row sc_row = scenario_df[scenario_df[SCENARIO_NAME] == sc].iloc[0]
FirstRow(df, sc) ==
    df[CHOOSE i \in DOMAIN df :
          /\ df[i].scenario_name = sc
          /\ \A j \in DOMAIN df : df[j].scenario_name = sc => i <= j]

\* ProxyDriverEvaluator.configure_subprocesses_with_driver_input: scenarios_data_dict
ScenariosDataDict(df, names, trade_vars) ==
    [key \in {Key(sc, var) : sc \in ToSet(names), var \in trade_vars}
        |-> FirstRow(df, key[1]).x]

\* a pass without a reference that leaves the editable flags as they are
keep_editable(dme, scenario_names) == dme

\* ProxyDriverEvaluator.configure_subprocesses_with_driver_input without a
\* reference: the editable flags after the flags recorded in
\* original_editable_dict_non_ref are set back for the scenarios of the list
restore_original_editable(dme, scenario_names) ==
    [key \in DOMAIN dme |->
        IF /\ key \in DOMAIN original_editable_dict_non_ref
           /\ \E sc \in ToSet(scenario_names) : NameInKey(sc, key)
        THEN original_editable_dict_non_ref[key] ELSE dme[key]]

\* ProxyDriverEvaluator.configure_subprocesses_with_driver_input, called with
\* the Data Manager entries dmv, dme, the driver inputs di, df, ir, rm and
\* the value sub_configured of subprocess_is_configured().
\* The result holds what the call leaves behind; raised is the exception
\* that ended it, if any.
configure_subprocesses_with_driver_input(dmv, dme, di, df, ir, rm, sub_configured) ==
    LET all_names == prepare_tool(df, ir)
        built == subprocesses_built(all_names)
        trade_vars == IF built THEN {TradeColumn} ELSE {}
        scenario_names == IF ir THEN SubSeq(all_names, 1, Len(all_names) - 1) ELSE all_names
        with_ref == built /\ ir
        imp == IF with_ref
               THEN manage_import_inputs_from_sub_process(dmv, di, REFERENCE_SCENARIO_NAME)
               ELSE NoImport(dmv)
        ref_dict == RefDict(imp.dm_value, trade_vars)
        ref_changes_dict == RefChangesDict(ref_dict, old_ref_dict)
        scenarios_non_trade_vars_dict ==
            transform_dict_from_reference_to_other_scenarios(imp.dm_value, scenario_names, ref_dict)
        names_changed == ToSet(scenario_names) # ToSet(old_scenario_names)
                            /\ old_scenario_names # <<>>
        new_scenarios == ToSet(scenario_names) \ ToSet(old_scenario_names)
        new_flag == IF with_ref /\ names_changed THEN TRUE ELSE there_are_new_scenarios
        original1 ==
            IF with_ref /\ names_changed
            THEN Update(original_editable_dict_non_ref,
                     save_original_editable_attr_from_non_trade_variables(dme,
                         Restrict(scenarios_non_trade_vars_dict,
                             {key \in DOMAIN scenarios_non_trade_vars_dict :
                                 \E sc \in new_scenarios : NameInKey(sc, key)})))
            ELSE original_editable_dict_non_ref
        original2 ==
            IF with_ref /\ save_editable_attr
            THEN save_original_editable_attr_from_non_trade_variables(dme,
                     scenarios_non_trade_vars_dict)
            ELSE original1
        raised == with_ref /\ ModifyEditableRaises(rm, scenario_names,
                                  scenarios_non_trade_vars_dict, original2)
        dme_ref == modify_editable_attribute_according_to_reference_mode(dme, rm,
                       scenario_names, scenarios_non_trade_vars_dict, original2)
        dme_no_ref == restore_original_editable(dme, scenario_names)
        dme1 == IF with_ref THEN dme_ref ELSE IF built THEN dme_no_ref ELSE dme
        to_propagate ==
            IF with_ref /\ ~raised
            THEN propagate_reference_non_trade_variables(imp.dm_value, rm, scenario_names,
                     ref_changes_dict, ref_dict, new_flag)
            ELSE EmptyDict
        dmv1 == SetAll(imp.dm_value, to_propagate)
        scenarios_data_dict ==
            IF built /\ ~raised THEN ScenariosDataDict(df, scenario_names, trade_vars)
            ELSE EmptyDict
        pushed == IF DOMAIN scenarios_data_dict # {} /\ sub_configured
                  THEN scenarios_data_dict ELSE EmptyDict
    IN  [dm_value |-> SetAll(dmv1, pushed),
         dm_editable |-> dme1,
         imp |-> imp,
         old_ref_dict |-> IF with_ref /\ ~raised /\ DOMAIN ref_changes_dict # {}
                          THEN ref_dict ELSE old_ref_dict,
         old_scenario_names |-> IF with_ref THEN scenario_names ELSE old_scenario_names,
         save_editable_attr |-> IF with_ref THEN FALSE ELSE save_editable_attr,
         original |-> IF with_ref THEN original2 ELSE original_editable_dict_non_ref,
         new_flag |-> new_flag,
         raised |-> IF raised THEN "KeyError" ELSE NoneVal,
         propagation_ran |-> with_ref,
         written |-> DOMAIN to_propagate,
         trade_written |-> DOMAIN pushed,
         restored |-> IF built /\ ~ir THEN {key \in DOMAIN dme : dme1[key] # dme[key]}
                      ELSE {}]

(***************************************************************************)
(* Evaluation tables, samples and gather outputs                           *)
(***************************************************************************)
\* table['full_name'].tolist(), table['output_name'].tolist()
FullNames(table) == [i \in DOMAIN table |-> table[i].full_name]
OutputNames(table) == [i \in DOMAIN table |-> table[i].output_name]

\* eval_inputs[eval_inputs['selected_input'] == True]
IsSelectedInput(row) == row.selected_input
SelectedInputRows(table) == SelectSeq(table, IsSelectedInput)

\* eval_outputs[eval_outputs['selected_output'] == True]
IsSelectedOutput(row) == row.selected_output
SelectedOutputRows(table) == SelectSeq(table, IsSelectedOutput)

\* _out_name = out_name or f'{out_var}{self.GATHER_DEFAULT_SUFFIX}'
OutName(out_var, out_name) ==
    IF out_name # NoName THEN out_name ELSE <<out_var, GATHER_DEFAULT_SUFFIX>>

\* the names of the gather outputs of the selected rows, in the order of the rows
OutNames(rows) == [i \in DOMAIN rows |-> OutName(rows[i].full_name, rows[i].output_name)]

\* the Data Manager entry of an input of the sub-process given by its name
\* anonymised with respect to the driver
EvalKey(name) == Key(eval_process_builder, name)

\* default_custom_dataframe: one row of NaN, one column per selected input
default_custom_dataframe(sel_in) == [c \in ToSet(sel_in) |-> <<NaN>>]

\* a regeneration that gives the columns that stay a fresh row as well
fresh_dataframe(sel_in, samples) == default_custom_dataframe(sel_in)

\* ProxyDriverEvaluator._get_dynamic_inputs_doe: final_dataframe
final_dataframe(sel_in, samples) ==
    LET persisting == ToSet(sel_in) \cap DOMAIN samples
        len_df == IF persisting # {} THEN RowCount(samples) ELSE 1
    IN  [c \in ToSet(sel_in) |->
            IF c \in DOMAIN samples THEN samples[c] ELSE [i \in 1..len_df |-> NaN]]

\* ProxyDriverEvaluator._get_dynamic_inputs_doe, with the inputs di of the
\* driver and self.selected_inputs = sel_in: the value of samples_df after
\* the call and the exception that ended it, if any
get_dynamic_inputs_doe(dmv, di, sel_in, selected_inputs_has_changed) ==
    LET missing == {i \in DOMAIN sel_in : EvalKey(sel_in[i]) \notin DOMAIN dmv}
    IN  [raised |-> IF missing # {} THEN "KeyError" ELSE NoneVal,
         samples_df |->
             IF /\ missing = {}
                /\ SAMPLES_DF \in di
                /\ selected_inputs_has_changed
                /\ SAMPLES_DF \notin none_valued
             THEN final_dataframe(sel_in, samples_df)
             ELSE samples_df]

\* ProxyDriverEvaluator.setup_sos_disciplines in mono-instance mode, with
\* the Data Manager entries dmv of the children: the attributes of the
\* driver after the call, the dynamic inputs and the dict outputs it gives to
\* add_inputs and add_outputs, and the exception that ended it, if any
setup_mono_instance(dmv) ==
    LET read == EVAL_INPUTS \in disc_in
        is_none == read /\ {EVAL_INPUTS, EVAL_OUTPUTS} \cap none_valued # {}
        rows_out == IF read /\ ~is_none THEN SelectedOutputRows(eval_outputs) ELSE <<>>
        rows_in == IF read /\ ~is_none THEN SelectedInputRows(eval_inputs) ELSE <<>>
        has_changed == read /\ ~is_none
                          /\ ToSet(FullNames(rows_in)) # ToSet(selected_inputs)
        sel_in == IF has_changed THEN FullNames(rows_in) ELSE selected_inputs
        both == read /\ ~is_none /\ Len(rows_in) > 0 /\ Len(rows_out) > 0
        doe == IF both THEN get_dynamic_inputs_doe(dmv, disc_in, sel_in, has_changed)
               ELSE [raised |-> NoneVal, samples_df |-> samples_df]
        raised == IF is_none THEN "TypeError" ELSE doe.raised
    IN  [selected_inputs |-> sel_in,
         selected_outputs |-> IF read /\ ~is_none THEN FullNames(rows_out)
                              ELSE selected_outputs,
         eval_out_names |-> IF both THEN OutNames(rows_out) ELSE eval_out_names,
         dynamic_inputs |-> {EVAL_INPUTS, EVAL_OUTPUTS}
                               \cup (IF both THEN {SAMPLES_DF} ELSE {}),
         dynamic_outputs |-> IF raised # NoneVal THEN dynamic_outputs
                             ELSE IF both THEN ToSet(OutNames(rows_out)) ELSE {},
         samples_df |-> IF raised # NoneVal THEN samples_df
                        ELSE IF ~both THEN EmptyDict
                        ELSE IF SAMPLES_DF \in disc_in THEN doe.samples_df
                        ELSE default_custom_dataframe(sel_in),
         gather_names |-> gather_names,
         gather_out_keys |-> gather_out_keys,
         scenario_df |-> scenario_df,
         old_samples_df |-> old_samples_df,
         selected_inputs_has_changed |-> has_changed,
         raised |-> raised]

\* ProxyDriverEvaluator._set_gather_names, called for each selected output
\* row in turn: the entries it adds to gather_names, the entry of a later
\* row replacing the one of an earlier row of the same full name
set_gather_names(rows, di, df) ==
    [key \in {Key(sc, rows[i].full_name) :
                 sc \in (IF SCENARIO_DF \in di THEN ToSet(SelectedNames(df)) ELSE {}),
                 i \in DOMAIN rows}
        |-> LET last == CHOOSE i \in DOMAIN rows :
                            /\ rows[i].full_name = key[2]
                            /\ \A j \in DOMAIN rows : rows[j].full_name = key[2] => j <= i
            IN  <<OutName(rows[last].full_name, rows[last].output_name), key[1]>>]

\* ProxyDriverEvaluator._clear_gather_names: gather_names after the call
clear_gather_names == EmptyDict

\* a gather without _clear_gather_names: the entries of the call before stay
GatherNamesKept(rows, di, df) == Update(gather_names, set_gather_names(rows, di, df))

\* gather_names after _clear_gather_names and the calls of _set_gather_names
GatherNames(rows, di, df) == Update(clear_gather_names, set_gather_names(rows, di, df))

\* generated_samples_dict
SamplesDict(samples) == [name \in {GENERATED_SAMPLES} |-> samples]

\* dict_are_equal
dict_are_equal(d1, d2) == d1 = d2

\* scenario_df.drop([SELECTED_SCENARIO, SCENARIO_NAME], axis=1): the rows of
\* the trade columns
TradeColumns(df) == [i \in DOMAIN df |-> df[i].x]

\* 'scenario_' + str(i + 1), for the index i of a row counted from 0
GeneratedName(i) == "scenario_" \o ToString(i + 1)

\* the scenario_df proposed for a sample: one row per row of the sample, all
\* selected unless the sample is over MAX_SAMPLE_AUTO_BUILD_SCENARIOS
SampledScenarioDf(samples) ==
    [i \in 1..Len(samples) |->
        Row(Len(samples) <= MAX_SAMPLE_AUTO_BUILD_SCENARIOS, GeneratedName(i - 1),
            samples[i])]

\* a check of the sample that forgets the sample recorded last
generated_samples_not_recorded(samples, old) ==
    /\ ~(samples = <<>> /\ old = EmptyDict)

\* setup_sos_disciplines: generated_samples has changed since the sample
\* recorded last, an empty sample counting for nothing while none is recorded
generated_samples_has_changed(samples, old) ==
    /\ ~(samples = <<>> /\ old = EmptyDict)
    /\ ~dict_are_equal(SamplesDict(samples), old)

\* setup_sos_disciplines in multi-instance mode: the sample replaces
\* scenario_df and is recorded
sample_replaces_scenario_df ==
    /\ GENERATED_SAMPLES \in disc_in
    /\ generated_samples_has_changed(generated_samples, old_samples_df)
    /\ generated_samples # TradeColumns(scenario_df)

\* ProxyDriverEvaluator.build_multi_instance_inst_desc_io: the gather part
setup_multi_instance ==
    LET read == EVAL_OUTPUTS \in disc_in
        rows == IF read THEN SelectedOutputRows(eval_outputs) ELSE <<>>
    IN  [scenario_df |-> IF sample_replaces_scenario_df
                         THEN SampledScenarioDf(generated_samples) ELSE scenario_df,
         old_samples_df |-> IF sample_replaces_scenario_df
                            THEN SamplesDict(generated_samples) ELSE old_samples_df,
         selected_inputs |-> selected_inputs,
         selected_outputs |-> selected_outputs,
         eval_out_names |-> eval_out_names,
         dynamic_inputs |-> build_multi_instance_inst_desc_io(disc_in, instance_reference),
         dynamic_outputs |-> ToSet(OutNames(rows)),
         samples_df |-> EmptyDict,
         gather_names |-> IF read THEN GatherNames(rows, disc_in, scenario_df)
                          ELSE gather_names,
         gather_out_keys |-> IF read THEN OutNames(rows) ELSE gather_out_keys,
         selected_inputs_has_changed |-> FALSE,
         raised |-> NoneVal]

\* setup_sos_disciplines in the other modes, and when it is not called
NoSetup(dynamic_inputs) ==
    [selected_inputs |-> selected_inputs,
     selected_outputs |-> selected_outputs,
     eval_out_names |-> eval_out_names,
     dynamic_inputs |-> dynamic_inputs,
     dynamic_outputs |-> dynamic_outputs,
     samples_df |-> IF SAMPLES_DF \in dynamic_inputs THEN samples_df ELSE EmptyDict,
     gather_names |-> gather_names,
     gather_out_keys |-> gather_out_keys,
     scenario_df |-> scenario_df,
     old_samples_df |-> old_samples_df,
     selected_inputs_has_changed |-> FALSE,
     raised |-> NoneVal]

\* sorted(list(names))
SortOrder == <<"a", "b", "k", "x", "y", "z", "zz">>
IsIn(names) == [n \in ToSet(SortOrder) |-> n \in names]
Sorted(names) == LET in == IsIn(names) IN SelectSeq(SortOrder, LAMBDA n : in[n])

\* the last row of the table with the name
LastRow(table, name) ==
    table[CHOOSE i \in DOMAIN table :
             /\ table[i].full_name = name
             /\ \A j \in DOMAIN table : table[j].full_name = name => j <= i]

\* ProxyDriverEvaluator.fill_possible_values and find_possible_values on the
\* children: the editable inputs, and the outputs, of the sub-process
PossibleInValues(dme) ==
    {k[2] : k \in {q \in DOMAIN dme : q[1] \in ProxiesNames /\ dme[q]}}
PossibleOutValues == IF ProxiesNames # {} THEN OutVars ELSE {}

\* ProxyDriverEvaluator.set_eval_possible_values on eval_inputs: the table
\* after the call, whether it is None, and the names check_eval_io warns about
set_eval_inputs_possible_values(table, is_none, possible) ==
    LET names == Sorted(possible)
        differ == ~is_none /\ ToSet(FullNames(table)) # possible
    IN  IF possible = {} \/ (~is_none /\ ~differ)
        THEN [table |-> table, is_none |-> is_none, warned |-> {}]
        ELSE [table |->
                 [i \in DOMAIN names |->
                     [selected_input |->
                          IF ~is_none /\ names[i] \in ToSet(FullNames(table))
                          THEN LastRow(table, names[i]).selected_input ELSE FALSE,
                      full_name |-> names[i]]],
              is_none |-> FALSE,
              warned |-> IF differ THEN ToSet(FullNames(table)) \ possible ELSE {}]

\* ProxyDriverEvaluator.set_eval_possible_values on eval_outputs
set_eval_outputs_possible_values(table, is_none, possible) ==
    LET names == Sorted(possible)
        differ == ~is_none /\ ToSet(FullNames(table)) # possible
    IN  IF possible = {} \/ (~is_none /\ ~differ)
        THEN [table |-> table, is_none |-> is_none, warned |-> {}]
        ELSE [table |->
                 [i \in DOMAIN names |->
                     IF ~is_none /\ names[i] \in ToSet(FullNames(table))
                     THEN [selected_output |-> LastRow(table, names[i]).selected_output,
                           full_name |-> names[i],
                           output_name |-> LastRow(table, names[i]).output_name]
                     ELSE [selected_output |-> FALSE, full_name |-> names[i],
                           output_name |-> NoName]],
              is_none |-> FALSE,
              warned |-> IF differ THEN ToSet(FullNames(table)) \ possible ELSE {}]

(***************************************************************************)
(* Configure step of a configuration pass: ProxyDriverEvaluator.configure  *)
(***************************************************************************)
\* the result of configure_driver when it calls nothing
NoDriverCall(dmv, dme) ==
    [dm_value |-> dmv, dm_editable |-> dme, imp |-> NoImport(dmv),
     old_ref_dict |-> old_ref_dict, old_scenario_names |-> old_scenario_names,
     save_editable_attr |-> save_editable_attr,
     original |-> original_editable_dict_non_ref,
     new_flag |-> there_are_new_scenarios, raised |-> NoneVal,
     propagation_ran |-> FALSE, written |-> {}, trade_written |-> {}, restored |-> {}]

\* ProxyDriverEvaluator.configure_driver in mono-instance mode
configure_driver_mono(dmv, dme, di) ==
    [NoDriverCall(dmv, dme) EXCEPT
        !.imp = manage_import_inputs_from_sub_process(dmv, di, SubProcessName),
        !.dm_value = manage_import_inputs_from_sub_process(dmv, di, SubProcessName).dm_value]

\* ProxyDriverEvaluator.setup_sos_disciplines
setup_sos_disciplines(dmv) ==
    IF BUILDER_MODE \notin disc_in THEN NoSetup({})
    ELSE IF builder_mode = MULTI_INSTANCE THEN setup_multi_instance
    ELSE IF builder_mode = MONO_INSTANCE THEN setup_mono_instance(dmv)
    ELSE IF wrong_builder_mode THEN [NoSetup({}) EXCEPT !.raised = "ValueError"]
    ELSE NoSetup({})

\* the evaluation tables once the driver has declared the inputs di: a
\* table that is not declared has no value, a table declared in
\* mono-instance mode has no default
DeclaredTables(di) ==
    [eval_inputs |-> IF EVAL_INPUTS \in di THEN eval_inputs ELSE <<>>,
     eval_outputs |-> IF EVAL_OUTPUTS \in di THEN eval_outputs ELSE <<>>,
     none_valued |->
         ({EVAL_INPUTS, EVAL_OUTPUTS, SAMPLES_DF} \ di)
             \cup {n \in di \cap {EVAL_INPUTS, EVAL_OUTPUTS} :
                      builder_mode = MONO_INSTANCE
                          /\ (n \notin disc_in \/ n \in none_valued)}]

\* the result of set_eval_possible_values when it is not called on a table
NoPossibleValues(table, is_none) == [table |-> table, is_none |-> is_none, warned |-> {}]

configure ==
    \* for disc in self.get_disciplines_to_configure(): disc.configure()
    \E dmv0 \in {ChildrenValues(dm_value, get_disciplines_to_configure)},
       dme0 \in {ChildrenEditable(dm_editable, get_disciplines_to_configure)},
       sub_configured \in
           {ProxiesNames \ (configured_children \cup get_disciplines_to_configure) = {}} :
    \* super().configure()
    \E setup \in {IF disc_in = {} \/ sub_configured THEN setup_sos_disciplines(dmv0)
                  ELSE NoSetup(disc_in \ StaticInputs)} :
    \E own \in {(disc_in = {} \/ sub_configured) /\ setup.raised = NoneVal} :
    \E di \in {IF own THEN StaticInputs \cup setup.dynamic_inputs ELSE disc_in} :
    \E ir \in {IF INSTANCE_REFERENCE \in di THEN instance_reference ELSE FALSE},
       df \in {IF SCENARIO_DF \in di THEN setup.scenario_df ELSE <<>>},
       rm \in {IF REFERENCE_MODE \in di THEN reference_mode ELSE NoneVal},
       tables_read \in {DeclaredTables(di)} :
    \* configure_driver()
    LET multi == own /\ BUILDER_MODE \in di /\ builder_mode = MULTI_INSTANCE
                     /\ SCENARIO_DF \in di
        mono == own /\ BUILDER_MODE \in di /\ builder_mode = MONO_INSTANCE
                    /\ EVAL_INPUTS \in di /\ scenarios # {}
        valid == check_scatter_list_validity(df)
    IN
    \E r \in {IF multi
             THEN configure_subprocesses_with_driver_input(dmv0, dme0, di, df, ir, rm,
                                                           sub_configured)
             ELSE IF mono THEN configure_driver_mono(dmv0, dme0, di)
             ELSE NoDriverCall(dmv0, dme0)} :
    \* set_eval_possible_values()
    \E possible_in \in
           {IF mono
            THEN set_eval_inputs_possible_values(tables_read.eval_inputs,
                     EVAL_INPUTS \in tables_read.none_valued,
                     PossibleInValues(r.dm_editable))
            ELSE NoPossibleValues(tables_read.eval_inputs,
                     EVAL_INPUTS \in tables_read.none_valued)},
       possible_out \in
           {IF mono \/ (multi /\ r.raised = NoneVal)
            THEN set_eval_outputs_possible_values(tables_read.eval_outputs,
                     EVAL_OUTPUTS \in tables_read.none_valued, PossibleOutValues)
            ELSE NoPossibleValues(tables_read.eval_outputs,
                     EVAL_OUTPUTS \in tables_read.none_valued)} :
        /\ configured_children' = configured_children \cup get_disciplines_to_configure
        /\ disc_in' = di
        /\ instance_reference' = ir
        /\ scenario_df' = df
        /\ reference_mode' = rm
        /\ structuring_variables' = IF own THEN set_structuring_variables_values(tables_read)
                                    ELSE structuring_variables
        /\ configure_status' = (own \/ configure_status)
        \* setup_sos_disciplines()
        /\ selected_inputs' = setup.selected_inputs
        /\ selected_outputs' = setup.selected_outputs
        /\ eval_out_names' = setup.eval_out_names
        /\ dynamic_outputs' = setup.dynamic_outputs
        /\ gather_names' = setup.gather_names
        /\ gather_out_keys' = setup.gather_out_keys
        /\ samples_df' = setup.samples_df
        /\ old_samples_df' = setup.old_samples_df
        /\ generated_samples' = IF GENERATED_SAMPLES \in di THEN generated_samples ELSE <<>>
        \* set_eval_possible_values()
        /\ eval_inputs' = possible_in.table
        /\ eval_outputs' = possible_out.table
        /\ none_valued' = (tables_read.none_valued \ {EVAL_INPUTS, EVAL_OUTPUTS})
                             \cup (IF possible_in.is_none THEN {EVAL_INPUTS} ELSE {})
                             \cup (IF possible_out.is_none THEN {EVAL_OUTPUTS} ELSE {})
        \* configure_tool()
        /\ builder_tool' = IF multi THEN "scatter_tool" ELSE builder_tool
        /\ scatter_list_valid' = IF multi THEN valid ELSE scatter_list_valid
        /\ scatter_list_integrity_msg' = IF multi THEN RepeatedElements(df)
                                         ELSE scatter_list_integrity_msg
        /\ scatter_list' = IF multi /\ valid THEN prepare_tool(df, ir) ELSE scatter_list
        \* configure_subprocesses_with_driver_input()
        /\ dm_value' = r.dm_value
        /\ dm_editable' = r.dm_editable
        /\ sub_process_inputs' = r.imp.sub_process_inputs
        /\ sub_proc_import_usecase_status' = r.imp.status
        /\ previous_sub_process_usecase_name' = r.imp.previous_name
        /\ previous_sub_process_usecase_data' = r.imp.previous_data
        /\ old_ref_dict' = r.old_ref_dict
        /\ old_scenario_names' = r.old_scenario_names
        /\ save_editable_attr' = r.save_editable_attr
        /\ original_editable_dict_non_ref' = r.original
        /\ there_are_new_scenarios' = r.new_flag
        \* modify_editable_attribute_according_to_reference_mode()
        /\ nested_reference_mode' =
               IF r.propagation_ran THEN search_evaluator_names_and_modify_mode_iteratively(rm)
               ELSE nested_reference_mode
        /\ error' = IF setup.raised # NoneVal THEN setup.raised ELSE r.raised
        /\ last_configure' = [setup_ran |-> disc_in = {} \/ sub_configured,
                              prepared |-> multi /\ valid,
                              propagation_ran |-> r.propagation_ran,
                              written |-> r.written,
                              trade_written |-> r.trade_written,
                              restored |-> r.restored,
                              import_written |-> r.imp.written,
                              import_attempted |-> r.imp.attempted,
                              selected_inputs_has_changed |->
                                  setup.selected_inputs_has_changed,
                              warned |-> possible_in.warned \cup possible_out.warned]

Configure ==
    /\ error = NoneVal
    /\ phase = "built"
    /\ configure
    /\ phase' = "idle"
    /\ iteration' = iteration + 1
    /\ UNCHANGED <<builder_mode, old_builder_mode, eval_process_builder, scenarios,
                   construction, builder_namespaces, nested_instance_reference,
                   last_build, last_input>>
    /\ dirty' = (dirty \/ program' # program)

\* a loop without a limit: the count starts again and the passes go on
NoIterationLimit ==
    /\ error = NoneVal
    /\ phase = "idle"
    /\ PassNeeded
    /\ iteration >= MaxIterations
    /\ iteration' = 1
    /\ UNCHANGED <<inputs, proxy, tool, build, usecase, reference, dm, tables,
                   evaluation, construction, builder_namespaces, nested, sampling, phase, dirty,
                   error, calls>>

\* ExecutionEngine: the loop gives up after the iteration limit
TooManyIterations ==
    /\ error = NoneVal
    /\ phase = "idle"
    /\ PassNeeded
    /\ iteration >= MaxIterations
    /\ error' = "TooManyIterations"
    /\ UNCHANGED <<inputs, proxy, tool, build, usecase, reference, dm, tables,
                   evaluation, construction, builder_namespaces, nested, sampling, phase, dirty,
                   iteration, calls>>

(***************************************************************************)
(* Specifications.  Each one lets the user change a part of the inputs.    *)
(***************************************************************************)
\* the passes of the configuration loop
Passes == PrepareBuild \/ Configure

\* the configuration loop with its iteration limit
Engine == Passes \/ TooManyIterations

\* rows of selected scenarios with a trade value that is not the default
SelectedRows == {Row(TRUE, name, 2) : name \in SiblingNames}

\* the build: builder mode, reference, any scenario table, trade inputs
User ==
    \/ \E m \in BUILDER_MODE_POSSIBLE_VALUES : SetBuilderMode(m)
    \/ \E b \in BOOLEAN : SetInstanceReference(b)
    \/ \E row \in Rows : AddScenarioRow(row)
    \/ \E i \in 1..MaxRows : RemoveScenarioRow(i)
    \/ \E i \in 1..MaxRows : SelectScenarioRow(i)
    \/ \E sc \in SiblingNames, val \in Values : EditValue(Key(sc, TradeColumn), val)

\* every input of User converges below the iteration limit
Next == User \/ Passes

Spec == Init /\ [][Next]_vars

\* the reference: multi-instance, selected scenarios, non-trade inputs
UserRef ==
    \/ SetBuilderMode(MULTI_INSTANCE)
    \/ \E b \in BOOLEAN : SetInstanceReference(b)
    \/ \E m \in REFERENCE_MODE_POSSIBLE_VALUES : SetReferenceMode(m)
    \/ \E row \in SelectedRows : AddScenarioRow(row)
    \/ \E i \in 1..MaxRows : RemoveScenarioRow(i)
    \/ \E var \in {"a", "b"}, val \in Values :
           EditValue(Key(REFERENCE_SCENARIO_NAME, var), val)
    \/ \E sc \in SiblingNames, val \in Values : EditValue(Key(sc, "a"), val)

\* every input of UserRef converges below the iteration limit
NextRef == UserRef \/ Passes

SpecRef == Init /\ [][NextRef]_vars

\* the use case import: multi-instance with a reference and mono-instance
UserImport ==
    \/ \E m \in {MULTI_INSTANCE, MONO_INSTANCE} : SetBuilderMode(m)
    \/ SetInstanceReference(TRUE)
    \/ SetReferenceMode(LINKED_MODE)
    \/ AddScenarioRow(Row(TRUE, "sc1", 2))
    \/ \E name \in UsecaseNames \cup {EmptyUsecase}, data \in UsecaseData \cup {EmptyDict} :
           SetUsecase(name, data)
    \/ \E val \in Values : EditValue(Key(REFERENCE_SCENARIO_NAME, "a"), val)

NextImport == UserImport \/ Engine

SpecImport == Init /\ [][NextImport]_vars

\* the inputs that may keep the loop from converging: a use case with a
\* key no discipline declares, a reference value that is not a number
UserLive ==
    \/ UserImport
    \/ EditValue(Key(REFERENCE_SCENARIO_NAME, "a"), NaN)

NextLive == UserLive \/ Engine

\* the end of a pass: the step Configure takes, which no guard but the
\* position in the pass and an earlier exception holds back
EndOfPass == error = NoneVal /\ phase = "built" /\ phase' = "idle"

\* the engine runs the loop on until it has converged or given up: it starts
\* the pass that is needed, ends the pass it has started and stops at the limit
SpecLive ==
    /\ Init /\ [][NextLive]_vars
    /\ WF_vars(PrepareBuild) /\ WF_phase(EndOfPass) /\ WF_vars(TooManyIterations)

\* the evaluation in mono-instance mode: the selection tables, the names of
\* the gather outputs and the samples
EvalInputRows == [selected_input : {TRUE}, full_name : {"k", BadVar}]
EvalOutputRows == [selected_output : {TRUE}, full_name : {BadVar}, output_name : {NoName}]
GatherOutputNames == {NoName, <<"out">>}

UserEval ==
    \/ SetBuilderMode(MONO_INSTANCE)
    \/ \E i \in 1..MaxEvalRows : SelectEvalInput(i)
    \/ \E row \in EvalInputRows : AddEvalInputRow(row)
    \/ \E i \in 1..MaxEvalRows : SelectEvalOutput(i)
    \/ \E i \in 1..MaxEvalRows, name \in GatherOutputNames : SetOutputName(i, name)
    \/ \E row \in EvalOutputRows : AddEvalOutputRow(row)
    \/ \E val \in Values : AddSample(val)

NextEval == UserEval \/ Passes

SpecEval == Init /\ [][NextEval]_vars

\* the namespaces a builder or the driver may be associated with
Namespaces == {<<"ns_disc", <<"Test">> >>, <<"ns_eval", <<"Test">> >>}

\* the builder lists a driver may be constructed with
BuilderLists == {<<>>, <<SubProcessName>>, <<SubProcessName, OtherBuilder>>}

\* any construction of the driver: no, one or two builders, with or without
\* flatten_subprocess, the driver and each builder having any namespaces
InitBuild ==
    \E builders \in BuilderLists, flatten \in BOOLEAN :
    \E namespaces \in SUBSET {<<"ns_eval", <<"Test">> >>} :
    \E builders_ns \in [ToSet(builders) -> SUBSET Namespaces] :
        Constructed(builders, flatten, namespaces, builders_ns) /\ NoNestedDriver

\* the build of any driver: the builder mode changes between passes
UserBuild == \E m \in BUILDER_MODE_POSSIBLE_VALUES : SetBuilderMode(m)

NextBuild == UserBuild \/ Passes

SpecBuild == InitBuild /\ [][NextBuild]_vars

\* the gather: multi-instance mode, scenarios selected and unselected,
\* outputs selected, unselected and given an output name
UserGather ==
    \/ SetBuilderMode(MULTI_INSTANCE)
    \/ \E row \in SelectedRows : AddScenarioRow(row)
    \/ \E i \in 1..MaxRows : SelectScenarioRow(i)
    \/ \E i \in 1..MaxEvalRows : SelectEvalOutput(i)
    \/ \E i \in 1..MaxEvalRows : SetOutputName(i, <<"out">>)

NextGather == UserGather \/ Passes

SpecGather == Init /\ [][NextGather]_vars

\* the scenario names: instance_reference, selected scenarios, among them a
\* row the user names ReferenceScenario
UserNames ==
    \/ SetBuilderMode(MULTI_INSTANCE)
    \/ \E b \in BOOLEAN : SetInstanceReference(b)
    \/ \E m \in REFERENCE_MODE_POSSIBLE_VALUES : SetReferenceMode(m)
    \/ \E name \in ScenarioNames : AddScenarioRow(Row(TRUE, name, 2))
    \/ \E i \in 1..MaxRows : RemoveScenarioRow(i)

NextNames == UserNames \/ Passes

SpecNames == Init /\ [][NextNames]_vars

\* the driver whose sub-process holds a driver
InitNested ==
    /\ Constructed(<<SubProcessName>>, FALSE, {}, [b \in {SubProcessName} |-> {}])
    /\ NestedDriver

\* nested drivers: the reference of the driver and of the nested drivers
UserNested ==
    \/ SetBuilderMode(MULTI_INSTANCE)
    \/ \E b \in BOOLEAN : SetInstanceReference(b)
    \/ \E m \in REFERENCE_MODE_POSSIBLE_VALUES : SetReferenceMode(m)
    \/ AddScenarioRow(Row(TRUE, "sc1", 2))
    \/ \E sc \in ScenarioNames, b \in BOOLEAN : SetNestedInstanceReference(sc, b)
    \/ \E sc \in ScenarioNames, m \in REFERENCE_MODE_POSSIBLE_VALUES :
           SetNestedReferenceMode(sc, m)

NextNested == UserNested \/ Passes

SpecNested == InitNested /\ [][NextNested]_vars

\* the build of any driver, the user giving builder_mode any value
UserWrongMode ==
    \E m \in BUILDER_MODE_POSSIBLE_VALUES \cup {WRONG_MODE} : SetBuilderMode(m)

NextWrongMode == UserWrongMode \/ Passes

SpecWrongMode == InitBuild /\ [][NextWrongMode]_vars

\* scenario names of which one occurs in the other
SubstringNames == {"sc1", "sc10"}

\* the reference with scenarios named sc1 and sc10, added in any order
UserSubstring ==
    \/ SetBuilderMode(MULTI_INSTANCE)
    \/ \E b \in BOOLEAN : SetInstanceReference(b)
    \/ \E m \in REFERENCE_MODE_POSSIBLE_VALUES : SetReferenceMode(m)
    \/ \E name \in SubstringNames : AddScenarioRow(Row(TRUE, name, 2))

NextSubstring == UserSubstring \/ Passes

SpecSubstring == Init /\ [][NextSubstring]_vars

\* the samples: every sample of at most MaxGenerated rows, and a sample of
\* one row more than MAX_SAMPLE_AUTO_BUILD_SCENARIOS
GeneratedSamples ==
    UNION {[1..n -> Values] : n \in 0..MaxGenerated}
        \cup {[i \in 1..(MAX_SAMPLE_AUTO_BUILD_SCENARIOS + 1) |-> Default]}

\* the sample generator: generated_samples, and the rows the user selects
\* and adds in scenario_df
UserSamples ==
    \/ SetBuilderMode(MULTI_INSTANCE)
    \/ \E samples \in GeneratedSamples : SetGeneratedSamples(samples)
    \/ \E i \in 1..MaxRows : SelectScenarioRow(i)
    \/ \E val \in Values : AddScenarioRow(Row(TRUE, "sc1", val))

NextSamples == UserSamples \/ Passes

SpecSamples == Init /\ [][NextSamples]_vars

(***************************************************************************)
(* Properties                                                              *)
(***************************************************************************)
\* the state reached by a configuration pass that ended without exception
AfterPass == phase = "idle" /\ error = NoneVal /\ iteration > 0

\* a pass in which configure_subprocesses_with_driver_input found the
\* ReferenceScenario and the selected scenarios built
AfterReferencePass ==
    /\ AfterPass
    /\ last_configure.propagation_ran
    /\ builder_mode = MULTI_INSTANCE
    /\ instance_reference

\* the non-trade inputs of the reference
NonTradeVars == Vars \ {TradeColumn}

\* the selected sibling scenarios
SelectedSiblings == ToSet(SelectedNames(scenario_df))

\* scenario s holds the value of the reference for the input v
SameAsReference(s, v) ==
    dm_value[Key(s, v)] = dm_value[Key(REFERENCE_SCENARIO_NAME, v)]

\* C1. Linked-mode invariant: after every pass of a multi-instance driver with
\* a reference in linked mode in which the reference and the selected
\* scenarios are built, every non-trade input of every selected sibling has
\* the value of the reference and is not editable.
C1_LinkedModeInvariant ==
    (AfterReferencePass /\ reference_mode = LINKED_MODE) =>
        \A s \in SelectedSiblings, v \in NonTradeVars :
            Key(s, v) \in DOMAIN dm_value =>
                /\ SameAsReference(s, v)
                /\ dm_editable[Key(s, v)] = FALSE

\* the scenarios built by the build step of the last pass
NewScenarios == last_build.built \cap SelectedSiblings

\* C2. New-scenario full copy: after the pass in which a scenario added to the
\* table of a multi-instance driver with a reference is built, in linked mode
\* and in copy mode, every non-trade input of the new scenario has the
\* current value of the reference.
C2_NewScenarioFullCopy ==
    (AfterReferencePass /\ reference_mode \in REFERENCE_MODE_POSSIBLE_VALUES) =>
        \A s \in NewScenarios, v \in NonTradeVars :
            Key(s, v) \in DOMAIN dm_value => SameAsReference(s, v)

\* the configure step of the first pass after the user changed the input w
\* of the reference, in copy mode, ended without exception
CopyPassAfterReferenceEdit(w) ==
    /\ phase = "built" /\ phase' = "idle" /\ iteration = 0
    /\ error' = NoneVal
    /\ last_input = Key(REFERENCE_SCENARIO_NAME, w)
    /\ builder_mode = MULTI_INSTANCE
    /\ instance_reference
    /\ reference_mode = COPY_MODE

SelectedDuplicates(df) ==
    {df[i].scenario_name : i \in {j \in DOMAIN df :
        /\ df[j].selected_scenario
        /\ \E k \in DOMAIN df \ {j} :
              df[k].selected_scenario /\ df[k].scenario_name = df[j].scenario_name}}

\* C4. No duplicate scenario names: after a pass in multi-instance mode the
\* table is marked invalid exactly when two selected rows have the same name,
\* with a message naming the repeated names; while it is marked invalid the
\* pass calls neither builder_tool.prepare_tool nor builder_tool.build and
\* builds no scenario.
C4_NoDuplicateScenarioNames ==
    /\ (AfterPass /\ builder_mode = MULTI_INSTANCE) =>
          /\ scatter_list_valid = (SelectedDuplicates(scenario_df) = {})
          /\ scatter_list_integrity_msg = SelectedDuplicates(scenario_df)
          /\ ~scatter_list_valid => ~last_configure.prepared
    /\ (phase = "built" /\ builder_mode = MULTI_INSTANCE /\ ~scatter_list_valid) =>
          /\ ~last_build.tool_build
          /\ last_build.built = {}

\* a pass marked invalid a table of two selected rows named sc1
C4_Witness ==
    /\ AfterPass /\ builder_mode = MULTI_INSTANCE
    /\ ~scatter_list_valid
    /\ scatter_list_integrity_msg = {"sc1"}
    /\ Len(scenario_df) = 2

\* C5. Configured means fully propagated: in multi-instance mode, whenever
\* is_configured() is True, every scenario discipline is configured, no
\* reference non-trade value differs from the snapshot old_ref_dict, the
\* snapshot has reached the siblings (in linked mode they hold it), and the
\* use case import status is 'No_SP_UC_Import'.
C5_ConfiguredMeansPropagated ==
    (builder_mode = MULTI_INSTANCE /\ is_configured) =>
        /\ ProxiesNames \subseteq configured_children
        /\ DOMAIN check_if_there_are_reference_variables_changes = {}
        /\ (instance_reference /\ subprocesses_built(PropagatedScenarioNames)) =>
              \A v \in NonTradeVars :
                  /\ Key(REFERENCE_SCENARIO_NAME, v) \in DOMAIN old_ref_dict
                  /\ dm_value[Key(REFERENCE_SCENARIO_NAME, v)]
                        = old_ref_dict[Key(REFERENCE_SCENARIO_NAME, v)]
                  /\ reference_mode = LINKED_MODE =>
                        \A s \in SelectedSiblings : SameAsReference(s, v)
        /\ sub_proc_import_usecase_status = NO_IMPORT

\* configure() is called again with no input change since the call before:
\* the configure step of a pass that follows another pass, after a build
\* step that changed nothing
SecondConfigure ==
    /\ phase = "built" /\ phase' = "idle"
    /\ iteration > 0
    /\ ~dirty

BuildStep == phase = "idle" /\ phase' = "built"

\* C7. Builder-mode change forces full teardown: when prepare_build sees a
\* builder_mode that differs from old_builder_mode, the children and the
\* sub-builders are cleaned, the build object of the old mode is discarded,
\* no child built under the old mode is a child after the call and the new
\* mode is recorded; when the mode is the same, nothing is torn down.
C7_ModeChangeTeardown ==
    [][BuildStep =>
          IF BUILDER_MODE \in disc_in /\ builder_mode # old_builder_mode
          THEN /\ last_build'.cleaned
               /\ old_builder_mode = MULTI_INSTANCE => builder_tool' = NoneVal
               /\ old_builder_mode = MONO_INSTANCE => eval_process_builder' = NoneVal
               /\ \A c \in scenarios' : c.mode = builder_mode
               /\ \A c \in scenarios : c \notin scenarios'
               /\ old_builder_mode' = builder_mode
          ELSE /\ ~last_build'.cleaned
               /\ builder_tool' = builder_tool
               /\ eval_process_builder # NoneVal =>
                     eval_process_builder' = eval_process_builder
               /\ old_builder_mode' = old_builder_mode
               /\ builder_mode # MULTI_INSTANCE => scenarios \subseteq scenarios']_vars

\* a build step tore down the scenarios of the multi-instance mode and built
\* the sub-process of the mono-instance mode
C7_Witness ==
    /\ phase = "built"
    /\ last_build.cleaned
    /\ SiblingNames \subseteq last_build.removed
    /\ builder_mode = MONO_INSTANCE
    /\ builder_tool = NoneVal
    /\ scenarios = {[name |-> SubProcessName, mode |-> MONO_INSTANCE]}

\* C8. Trade-variable push: in multi-instance mode, after every pass in
\* which all selected scenarios are built and the sub-process is configured,
\* the Data Manager value of the trade column of every selected scenario is
\* the value of that column in the selected table row of the scenario, with
\* instance_reference on or off.
C8_TradeVariablePush ==
    (/\ AfterPass
     /\ builder_mode = MULTI_INSTANCE
     /\ subprocesses_built(PropagatedScenarioNames)
     /\ subprocess_is_configured)
    => \A i \in DOMAIN scenario_df :
          scenario_df[i].selected_scenario =>
             dm_value[Key(scenario_df[i].scenario_name, TradeColumn)] = scenario_df[i].x

\* the configure step of a pass
ConfigureStep == phase = "built" /\ phase' = "idle"

\* the root path of the import: the reference scenario in multi-instance
\* mode, the sub-process in mono-instance mode
ImportRoot ==
    IF builder_mode = MULTI_INSTANCE THEN REFERENCE_SCENARIO_NAME ELSE SubProcessName

\* the keys of the use-case dict with the placeholder replaced by the root
TranslatedKeys ==
    {IF k[1] = STUDY_PLACEHOLDER_WITHOUT_DOT THEN Key(ImportRoot, k[2]) ELSE k :
        k \in DOMAIN sub_process_inputs.usecase_data}

\* the value of the use-case dict for a translated key
TranslatedValue(key) ==
    sub_process_inputs.usecase_data[
        CHOOSE k \in DOMAIN sub_process_inputs.usecase_data :
            key = IF k[1] = STUDY_PLACEHOLDER_WITHOUT_DOT THEN Key(ImportRoot, k[2]) ELSE k]

\* C9. Use-case import: a pass that runs update_reference_from_anonymised_dict
\* writes exactly the translated keys that exist in the Data Manager, with
\* the values of the use-case dict, and creates no entry for the others; it
\* sets the status to No_SP_UC_Import only when every translated key existed
\* and leaves it at SP_UC_Import otherwise; the pass that follows a pass with
\* a pending import attempts the import again.
C9_UsecaseImport ==
    [][ConfigureStep =>
          /\ last_configure'.import_attempted =>
                /\ last_configure'.import_written = TranslatedKeys \cap DOMAIN dm_value'
                /\ \A key \in last_configure'.import_written :
                      dm_value'[key] = TranslatedValue(key)
                /\ \A key \in TranslatedKeys \ UNION {KeysOf(n) : n \in ProxiesNames} :
                      key \notin DOMAIN dm_value'
                /\ sub_proc_import_usecase_status' = NO_IMPORT
                      => TranslatedKeys \subseteq DOMAIN dm_value'
                /\ ~(TranslatedKeys \subseteq DOMAIN dm_value')
                      => sub_proc_import_usecase_status' = SP_UC_IMPORT
          /\ (/\ iteration > 0
              /\ last_configure.import_attempted
              /\ sub_proc_import_usecase_status = SP_UC_IMPORT)
                => last_configure'.import_attempted]_vars

\* a pass imported one key of the use case into the reference scenario and
\* left the status pending because of another key, and the next pass ran
\* the import again
C9_Witness ==
    /\ phase = "idle"
    /\ iteration > 1
    /\ last_configure.import_attempted
    /\ last_configure.import_written = {Key(REFERENCE_SCENARIO_NAME, "a")}
    /\ dm_value[Key(REFERENCE_SCENARIO_NAME, "a")] = 2
    /\ sub_proc_import_usecase_status = SP_UC_IMPORT
    /\ Key(REFERENCE_SCENARIO_NAME, BadVar) \notin DOMAIN dm_value

\* the loop has converged: the user may give the next input
Converged == error = NoneVal /\ phase = "idle" /\ ~dirty /\ is_configured

C11_InvalidTableNotConfigured ==
    (/\ phase = "idle" /\ iteration > 0
     /\ builder_mode = MULTI_INSTANCE
     /\ SCENARIO_DF \in disc_in
     /\ SelectedDuplicates(scenario_df) # {})
    => /\ ~scatter_list_valid
       /\ scatter_list_integrity_msg = SelectedDuplicates(scenario_df)
       /\ error = NoneVal
       /\ ~is_configured

\* C12. Editability snapshot and restore: after every pass of a multi-instance
\* driver with a reference in copy mode (so after the pass that follows a
\* switch from linked mode to copy mode), every non-trade input of every
\* selected sibling is editable exactly when it was editable before linked
\* mode made it read-only, which is how the discipline declares it.
C12_EditabilityRestored ==
    (/\ phase = "idle" /\ iteration > 0
     /\ last_configure.propagation_ran
     /\ builder_mode = MULTI_INSTANCE
     /\ instance_reference
     /\ reference_mode = COPY_MODE)
    => \A s \in SelectedSiblings, v \in NonTradeVars :
          dm_editable[Key(s, v)] = DeclaredEditable(v)

\* the selected names of the evaluation tables that are neither possible
\* values nor entries of the Data Manager
UnknownSelectedInputs ==
    {n \in ToSet(FullNames(SelectedInputRows(eval_inputs))) :
        n \notin PossibleInValues(dm_editable) /\ ~check_data_in_dm(EvalKey(n))}
UnknownSelectedOutputs ==
    ToSet(FullNames(SelectedOutputRows(eval_outputs))) \ PossibleOutValues

\* a configure step in mono-instance mode on declared evaluation tables
MonoConfigureStep ==
    /\ ConfigureStep
    /\ builder_mode = MONO_INSTANCE
    /\ EVAL_INPUTS \in disc_in
    /\ subprocess_is_configured

\* C14. Soft-fail on unknown selection: in mono-instance mode a selected row
\* of eval_inputs or eval_outputs whose full_name is neither a possible
\* value nor in the Data Manager never makes a pass raise: the pass
\* completes, check_eval_io warns about the name and the name is removed
\* from the table.
C14_UnknownSelectionSoftFail ==
    [][(MonoConfigureStep /\ UnknownSelectedInputs \cup UnknownSelectedOutputs # {})
          => /\ error' = NoneVal
             /\ UnknownSelectedInputs \cup UnknownSelectedOutputs
                    \subseteq last_configure'.warned
             /\ UnknownSelectedInputs \cap ToSet(FullNames(eval_inputs')) = {}
             /\ UnknownSelectedOutputs \cap ToSet(FullNames(eval_outputs')) = {}]_vars

\* the gather outputs the driver declares: its dict-typed dynamic outputs
DeclaredGatherOutputs == dynamic_outputs

\* a pass of setup_sos_disciplines in mono-instance mode with at least one
\* selected input and one selected output has ended without exception
AfterMonoSetup ==
    /\ AfterPass
    /\ builder_mode = MONO_INSTANCE
    /\ SAMPLES_DF \in disc_in
    /\ selected_outputs = FullNames(SelectedOutputRows(eval_outputs))

\* C17. One gather output per selected output (mono-instance): after
\* setup_sos_disciplines with at least one selected input and one selected
\* output, one dict output is declared for each selected output, named by the
\* alias of its row or by full_name + GATHER_DEFAULT_SUFFIX, and the number
\* of declared gather outputs is len(selected_outputs) = len(eval_out_names),
\* also when two selected rows carry the same alias.
C17_OneGatherOutputPerSelectedOutput ==
    AfterMonoSetup
        => /\ eval_out_names = OutNames(SelectedOutputRows(eval_outputs))
           /\ DeclaredGatherOutputs = ToSet(eval_out_names)
           /\ Len(eval_out_names) = Len(selected_outputs)
           /\ Cardinality(DeclaredGatherOutputs) = Len(selected_outputs)

\* the set of selected inputs the driver holds differs from the selection
\* of the table, and samples_df is declared with a value
SelectionChanges ==
    /\ MonoConfigureStep
    /\ SAMPLES_DF \in disc_in \ none_valued
    /\ SelectedOutputRows(eval_outputs) # <<>>
    /\ SelectedInputRows(eval_inputs) # <<>>
    /\ ToSet(FullNames(SelectedInputRows(eval_inputs))) # ToSet(selected_inputs)

\* the selection of the table is the one the driver holds
SelectionStays ==
    /\ MonoConfigureStep
    /\ SAMPLES_DF \in disc_in \ none_valued
    /\ SelectedOutputRows(eval_outputs) # <<>>
    /\ ToSet(FullNames(SelectedInputRows(eval_inputs))) = ToSet(selected_inputs)

MonoBuildStep ==
    /\ BuildStep
    /\ BUILDER_MODE \in disc_in
    /\ builder_mode = MONO_INSTANCE

\* C15. Mono-instance build: prepare_mono_instance_build returns at most one
\* builder without raising: the single builder of cls_builder, the coupling
\* 'subprocess' for several builders without flatten_subprocess, and the
\* empty list for no builder or for several builders with
\* flatten_subprocess; a call under the same mode returns the builder of the
\* call before.
C15_MonoInstanceBuild ==
    [][MonoBuildStep =>
          LET builder_list == prepare_mono_instance_build(eval_process_builder')
          IN  /\ error' = NoneVal
              /\ Len(builder_list) <= 1
              /\ Len(cls_builder) = 1 => builder_list = <<cls_builder[1]>>
              /\ (Len(cls_builder) > 1 /\ ~flatten_subprocess)
                     => builder_list = <<SUBCOUPLING_NAME>>
              /\ (Len(cls_builder) = 0 \/ (Len(cls_builder) > 1 /\ flatten_subprocess))
                     => builder_list = <<>>
              /\ (~builder_mode_has_changed /\ eval_process_builder # NoneVal)
                     => eval_process_builder' = eval_process_builder]_vars

\* C20. Builder templates are not mutated by a build: no call of
\* prepare_build, in any builder mode and on any mode change, changes the
\* namespaces associated to a builder of cls_builder, which stay those of
\* the construction of the driver.
C20_BuilderTemplatesNotMutated ==
    [][BuildStep => builder_namespaces' = builder_namespaces]_vars

\* a call of setup_sos_disciplines in multi-instance mode that reads
\* eval_outputs
MultiSetupStep ==
    /\ ConfigureStep
    /\ builder_mode = MULTI_INSTANCE
    /\ EVAL_OUTPUTS \in disc_in
    /\ SCENARIO_DF \in disc_in

\* C18. Gather mapping (multi-instance): after
\* build_multi_instance_inst_desc_io, gather_names has exactly one entry per
\* pair of a selected scenario s of scenario_df and a selected output o of
\* eval_outputs, keyed by the full name <driver>.<s>.<o> and valued (gather
\* output name of o, s), and gather_out_keys has one name per selected
\* output; an entry of a scenario or of an output that is not selected any
\* more is therefore absent after the pass.
C18_GatherMapping ==
    [][MultiSetupStep =>
          LET rows == SelectedOutputRows(eval_outputs)
              names == ToSet(SelectedNames(scenario_df))
          IN  /\ DOMAIN gather_names' = {Key(s, o) : s \in names, o \in ToSet(FullNames(rows))}
              /\ \A key \in DOMAIN gather_names' :
                    /\ gather_names'[key][2] = key[1]
                    /\ \E i \in DOMAIN rows :
                          /\ rows[i].full_name = key[2]
                          /\ gather_names'[key][1]
                                 = OutName(rows[i].full_name, rows[i].output_name)
              /\ Len(gather_out_keys') = Len(rows)
              /\ \A i \in DOMAIN rows :
                    gather_out_keys'[i] = OutName(rows[i].full_name, rows[i].output_name)]_vars

\* after a pass the gather holds the entries of two outputs, one of them
\* under a given output name, for the one scenario that is still selected,
\* another scenario having been unselected
C18_Witness ==
    /\ AfterPass
    /\ builder_mode = MULTI_INSTANCE
    /\ ~dirty
    /\ Cardinality(DOMAIN gather_names) = 2
    /\ \E key \in DOMAIN gather_names : gather_names[key][1] = <<"out">>
    /\ \E key \in DOMAIN gather_names : gather_names[key][1] # <<"out">>
    /\ \E i \in DOMAIN scenario_df : ~scenario_df[i].selected_scenario

\* C19. Unique scenario identity: at every configuration pass with
\* instance_reference enabled, a scenario table whose selected rows contain
\* a row named ReferenceScenario is rejected by the validation, and the list
\* of scenario names of prepare_variables_to_propagate (the selected rows
\* plus the appended ReferenceScenario) that the pass uses for the build
\* check and the propagation contains ReferenceScenario exactly once and no
\* other name twice.
C19_UniqueScenarioIdentity ==
    (/\ AfterPass
     /\ builder_mode = MULTI_INSTANCE
     /\ INSTANCE_REFERENCE \in disc_in
     /\ instance_reference)
        => /\ REFERENCE_SCENARIO_NAME \in ToSet(SelectedNames(scenario_df))
                  => ~scatter_list_valid
           /\ last_configure.prepared
                  => /\ Count(PropagatedScenarioNames, REFERENCE_SCENARIO_NAME) = 1
                     /\ \A name \in ToSet(PropagatedScenarioNames) :
                           Count(PropagatedScenarioNames, name) = 1

\* the nested drivers of the built scenarios that have instance_reference
NestedWithReference ==
    {sc \in ProxiesNames \cap DOMAIN nested_instance_reference :
        nested_instance_reference[sc]}

\* C13. Reference mode is inherited downward only: once the configuration
\* of a multi-instance driver with instance_reference in linked_mode has
\* converged, every nested driver with instance_reference found in one of
\* its scenarios (ReferenceScenario and siblings) has reference_mode =
\* linked_mode; in copy_mode the driver never writes the reference_mode of a
\* nested driver, and no pass changes the reference_mode of the driver
\* because of a nested driver.
C13_ReferenceModeInheritedDownward ==
    [][ConfigureStep =>
          /\ (/\ Converged'
              /\ builder_mode' = MULTI_INSTANCE
              /\ instance_reference'
              /\ reference_mode' = LINKED_MODE
              /\ subprocesses_built(PropagatedScenarioNames)')
                 => \A sc \in NestedWithReference' : nested_reference_mode'[sc] = LINKED_MODE
          /\ reference_mode = COPY_MODE => nested_reference_mode' = nested_reference_mode
          /\ REFERENCE_MODE \in disc_in' => reference_mode' = reference_mode]_vars

\* C21. Reference propagation leaves trade variables and the reference
\* alone: in any configuration pass, the keys written by
\* propagate_reference_non_trade_variables contain no trade variable of a
\* sibling scenario, and the pass does not change the value of any variable
\* of ReferenceScenario.
C21_PropagationFrame ==
    [][ConfigureStep =>
          /\ \A key \in last_configure'.written :
                ~(key[1] \in SiblingNames /\ key[2] = TradeColumn)
          /\ \A ref_key \in DOMAIN dm_value :
                ref_key[1] = REFERENCE_SCENARIO_NAME
                    => dm_value'[ref_key] = dm_value[ref_key]]_vars

\* the sample recorded last, none counting for an empty sample
LastRecordedSample ==
    IF old_samples_df = EmptyDict THEN <<>> ELSE old_samples_df[GENERATED_SAMPLES]

\* setup_sos_disciplines runs in multi-instance mode with generated_samples
\* declared
MultiSampleStep ==
    /\ ConfigureStep
    /\ last_configure'.setup_ran
    /\ BUILDER_MODE \in disc_in
    /\ builder_mode = MULTI_INSTANCE
    /\ GENERATED_SAMPLES \in disc_in

\* C22. In multi-instance mode, a pass that finds generated_samples different
\* from the sample recorded last and from the trade columns of scenario_df
\* replaces scenario_df by one row per sample, named scenario_1..scenario_n
\* and carrying the sample, all selected when n is at most
\* MAX_SAMPLE_AUTO_BUILD_SCENARIOS and none selected above; any other pass
\* leaves scenario_df as it is, the pass after a replacement among them, so
\* the selection the user edits persists.
C22_GeneratedSamplesDriveScenarioDf ==
    [][MultiSampleStep =>
          IF /\ generated_samples # LastRecordedSample
             /\ generated_samples # TradeColumns(scenario_df)
          THEN /\ Len(scenario_df') = Len(generated_samples)
               /\ \A i \in DOMAIN generated_samples :
                     /\ scenario_df'[i].scenario_name = "scenario_" \o ToString(i)
                     /\ scenario_df'[i].x = generated_samples[i]
                     /\ scenario_df'[i].selected_scenario
                            = (Len(generated_samples) <= MAX_SAMPLE_AUTO_BUILD_SCENARIOS)
               /\ LastRecordedSample' = generated_samples
          ELSE scenario_df' = scenario_df]_vars

\* a pass has ended on the scenarios of a sample, with a row the user has
\* unselected since the sample replaced scenario_df
C22_Witness ==
    /\ AfterPass
    /\ builder_mode = MULTI_INSTANCE
    /\ generated_samples # <<>>
    /\ Len(generated_samples) <= MAX_SAMPLE_AUTO_BUILD_SCENARIOS
    /\ LastRecordedSample = generated_samples
    /\ Len(scenario_df) = Len(generated_samples)
    /\ \A i \in DOMAIN scenario_df :
          scenario_df[i].scenario_name = "scenario_" \o ToString(i)
    /\ \E i \in DOMAIN scenario_df : ~scenario_df[i].selected_scenario
    /\ ~PassNeeded

\* the first call of prepare_build that cleans the builders: until then the
\* namespaces of the builders are those of the construction of the driver
FirstCleanStep ==
    /\ BuildStep
    /\ old_builder_mode = NoneVal
    /\ last_build'.cleaned

\* C23. clean_sub_builders restores the initial state: the namespaces it
\* leaves with every builder of cls_builder are those the builder had when
\* the driver was constructed, also for a builder whose own namespaces are
\* not the associated namespaces of the driver.
C23_CleanRestoresInitialNamespaces ==
    [][FirstCleanStep => clean_sub_builders = builder_namespaces]_vars

\* a configure step that runs the propagation on the sibling names of the
\* pass before
SameSiblingsStep ==
    /\ ConfigureStep
    /\ last_configure'.propagation_ran
    /\ ToSet(old_scenario_names) = SelectedSiblings

\* C24. The new-scenario flag is transient: after a pass on the same set of
\* sibling names as the pass before, there_are_new_scenarios is False, and in
\* linked mode such a pass, when no input changed since the pass before (no
\* reference change, no scenario added), issues no propagation write.
C24_NewScenarioFlagTransient ==
    [][SameSiblingsStep =>
          /\ ~there_are_new_scenarios'
          /\ (SecondConfigure /\ reference_mode = LINKED_MODE)
                => last_configure'.written = {}]_vars

\* C25. Trade values come from the selected row: the value a pass pushes to
\* the trade variable of a scenario is the one of the selected row of
\* scenario_df with the name of the scenario; a row of the same name that is
\* not selected never gives the value, before or after the selected row.
C25_TradeValueFromSelectedRow ==
    [][ConfigureStep =>
          \A i \in DOMAIN scenario_df :
              LET trade_key == Key(scenario_df[i].scenario_name, TradeColumn)
              IN  (scenario_df[i].selected_scenario /\ trade_key \in last_configure'.trade_written)
                      => dm_value'[trade_key] = scenario_df[i].x]_vars

\* a configure step of a multi-instance driver with a reference in copy
\* mode, the reference and the selected scenarios being built
CopyModeStep ==
    /\ ConfigureStep
    /\ BUILDER_MODE \in disc_in /\ builder_mode = MULTI_INSTANCE
    /\ INSTANCE_REFERENCE \in disc_in /\ instance_reference
    /\ REFERENCE_MODE \in disc_in /\ reference_mode = COPY_MODE
    /\ subprocesses_built(PropagatedScenarioNames)

\* C26. The editability snapshot covers every sibling variable: at every
\* pass in copy mode each non-trade variable of each sibling has an entry in
\* original_editable_dict_non_ref, and
\* modify_editable_attribute_according_to_reference_mode does not fail on a
\* missing key, the first sibling added after a pass with the reference
\* alone included.
C26_SnapshotCoversSiblings ==
    [][CopyModeStep =>
          /\ error' # "KeyError"
          /\ \A s \in SelectedSiblings, v \in NonTradeVars :
                Key(s, v) \in DOMAIN dm_value'
                    => Key(s, v) \in DOMAIN original_editable_dict_non_ref']_vars

\* C27. Per-scenario isolation of the editability records: a configure step
\* leaves the flags recorded for the variables of a scenario of the pass
\* before as they are; recording the flags of a scenario that is added, sc1,
\* does not overwrite the flags recorded for sc10, whose name holds sc1.
C27_EditabilityRecordsIsolated ==
    [][ConfigureStep =>
          \A key \in DOMAIN original_editable_dict_non_ref :
              (key[1] \in ToSet(old_scenario_names)
                  /\ key \in DOMAIN original_editable_dict_non_ref')
                  => original_editable_dict_non_ref'[key]
                         = original_editable_dict_non_ref[key]]_vars

\* the use case of sub_process_inputs has been imported: its name and the
\* emptied data are recorded, and no import is pending
ImportApplied ==
    /\ sub_proc_import_usecase_status = NO_IMPORT
    /\ sub_process_inputs.usecase_data = EmptyDict
    /\ previous_sub_process_usecase_name = sub_process_inputs.usecase_name
    /\ previous_sub_process_usecase_data = EmptyDict

\* C28. An import is applied exactly once: the pass in which
\* update_reference_from_anonymised_dict applies all the keys empties the
\* use case data and records the use case; every later pass with that use
\* case and no new data attempts no import and writes no imported value, so
\* the value the user gives to an imported input afterwards stays.
C28_ImportAppliedOnce ==
    [][ConfigureStep =>
          /\ (last_configure'.import_attempted
                 /\ sub_proc_import_usecase_status' = NO_IMPORT) => ImportApplied'
          /\ ImportApplied =>
                /\ ~last_configure'.import_attempted
                /\ last_configure'.import_written = {}
                /\ ImportApplied'
                /\ last_input \in DOMAIN dm_value' \cap DOMAIN dm_value
                      => dm_value'[last_input] = dm_value[last_input]]_vars

\* a pass has ended after the user changed the input a of the reference
\* that the use case had set to 2: the input holds the value of the user
C28_Witness ==
    /\ AfterPass
    /\ ~PassNeeded
    /\ ImportApplied
    /\ sub_process_inputs.usecase_name \in UsecaseNames
    /\ builder_mode = MULTI_INSTANCE
    /\ last_input = Key(REFERENCE_SCENARIO_NAME, "a")
    /\ dm_value[Key(REFERENCE_SCENARIO_NAME, "a")] = 1

\* a configure step of a multi-instance driver whose instance_reference is
\* off, the selected scenarios being built
NoReferenceStep ==
    /\ ConfigureStep
    /\ BUILDER_MODE \in disc_in /\ builder_mode = MULTI_INSTANCE
    /\ INSTANCE_REFERENCE \in disc_in /\ ~instance_reference
    /\ subprocesses_built(PropagatedScenarioNames)
    /\ error' = NoneVal

\* C29. Turning the reference off restores editability: once
\* instance_reference is off, the pass in which the selected scenarios are
\* built leaves every non-trade variable of a selected sibling recorded in
\* original_editable_dict_non_ref with the recorded editable flag; it issues
\* no propagation write and leaves the non-trade values of the siblings as
\* they are.
C29_ReferenceOffRestoresEditability ==
    [][NoReferenceStep =>
          /\ \A key \in DOMAIN original_editable_dict_non_ref \cap DOMAIN dm_editable' :
                key[1] \in SelectedSiblings
                    => dm_editable'[key] = original_editable_dict_non_ref[key]
          /\ original_editable_dict_non_ref' = original_editable_dict_non_ref
          /\ last_configure'.written = {}
          /\ \A s \in SelectedSiblings, v \in NonTradeVars :
                Key(s, v) \in DOMAIN dm_value
                    => dm_value'[Key(s, v)] = dm_value[Key(s, v)]]_vars

\* a pass without a reference has set an input of a sibling, read-only
\* since linked mode, back to editable
C29_Witness ==
    /\ AfterPass
    /\ builder_mode = MULTI_INSTANCE
    /\ ~instance_reference
    /\ \E key \in last_configure.restored :
          /\ key[1] \in SelectedSiblings
          /\ key[2] \in NonTradeVars
          /\ dm_editable[key]
          /\ original_editable_dict_non_ref[key]

\* C30. An invalid builder mode is an error without side effect: when
\* builder_mode is none of mono_instance, multi_instance, regular_build and
\* None, prepare_build raises ValueError and leaves the children,
\* builder_tool, eval_process_builder and the namespaces associated to the
\* sub-builders as they were before the call.
C30_WrongModeNoSideEffect ==
    [][(BuildStep /\ BUILDER_MODE \in disc_in /\ wrong_builder_mode) =>
          /\ error' = "ValueError"
          /\ scenarios' = scenarios
          /\ builder_tool' = builder_tool
          /\ eval_process_builder' = eval_process_builder
          /\ builder_namespaces' = builder_namespaces]_vars

====
